---- MODULE Spec2Model ----
(***************************************************************************)
(* Model of the reward calculation engine (src/src/rewardCalculator.js,    *)
(* class RewardCalculator) and of the data service (src/src/dataService.js)*)
(* of the customer rewards dashboard, of its PaginationManager and of the  *)
(* application (src/src/customerManager.js, class App) that runs them.     *)
(*                                                                         *)
(* JavaScript values are records [k, v]: k is the kind of the value and v  *)
(* its payload.  A finite number x is [k |-> "fin", v |-> x * Scale]: the  *)
(* model's numbers are the multiples of 1/Scale, computed exactly.  With   *)
(* Scale = 100 they are the amounts with two decimals.  The program        *)
(* computes on the doubles nearest to them; it floors a - 50 and           *)
(* 2 * (a - 100), whose exact values are either integers, and then a is a  *)
(* multiple of 1/2 and the double arithmetic is exact, or at least 1/100   *)
(* away from an integer, which the rounding of a double (below 1e-9 for    *)
(* amounts up to 1e6) never crosses: both give the same points.            *)
(***************************************************************************)
EXTENDS Integers, Sequences, FiniteSets, TLC

\* ------------------------------------------------------------------ bounds
\* numbers are multiples of 1/Scale
Scale == 100
\* largest finite amount drawn as a single amount
MaxAmount == 103
\* longest transactions array drawn
MaxLen == 2
\* largest month number of a drawn month-year key
MaxMonthNumber == 13
\* longest array of records a response carries
MaxRecords == 2
\* most calls of fetch in one behaviour
MaxFetches == 3
\* most transactions the service stores when it is queried
MaxStored == 3
\* longest data array given to a PaginationManager
MaxItems == 5
\* largest number of items per page drawn
MaxPerPage == 3
\* most transactions of one customer the application loads
MaxTransactions == 11
\* most events dispatched on the document in one behaviour
MaxEvents == 3

\* --------------------------------------------------------------- constants
HIGH_THRESHOLD == 100
LOW_THRESHOLD == 50
HIGH_MULTIPLIER == 2
LOW_MULTIPLIER == 1
TRANSACTIONS_PER_PAGE == 10
DEFAULT_PAGE == 1

\* --------------------------------------------------------- JavaScript values
Undefined == [k |-> "undefined", v |-> 0]
Null == [k |-> "null", v |-> 0]
\* a string that is not a number and not a date ('invalid', 'invalid-date')
Str == [k |-> "string", v |-> 0]
EmptyStr == [k |-> "string", v |-> 1]
NaN == [k |-> "nan", v |-> 0]
PosInf == [k |-> "inf", v |-> 1]
NegInf == [k |-> "inf", v |-> -1]
\* the finite number n / Scale
Fin(n) == [k |-> "fin", v |-> n]
\* the finite integer n
Num(n) == Fin(n * Scale)

\* typeof x === 'number'
IsNumber(x) == x.k \in {"fin", "inf", "nan"}
\* isNaN(x) for a number x
IsNaN(x) == x.k = "nan"

Sign(n) == IF n > 0 THEN 1 ELSE IF n < 0 THEN -1 ELSE 0

\* a + b on numbers
JsAdd(a, b) ==
    IF a.k = "nan" \/ b.k = "nan" THEN NaN
    ELSE IF a.k = "inf" /\ b.k = "inf" THEN (IF a.v = b.v THEN a ELSE NaN)
    ELSE IF a.k = "inf" THEN a
    ELSE IF b.k = "inf" THEN b
    ELSE Fin(a.v + b.v)

\* -a on numbers
JsNeg(a) == IF a.k = "nan" THEN NaN ELSE [k |-> a.k, v |-> 0 - a.v]

\* a - b on numbers
JsSub(a, b) == JsAdd(a, JsNeg(b))

\* a * b on numbers, b a finite integer
JsMul(a, b) ==
    IF a.k = "nan" \/ b.k = "nan" THEN NaN
    ELSE IF a.k = "inf" \/ b.k = "inf"
         THEN (IF Sign(a.v) * Sign(b.v) = 0 THEN NaN
               ELSE [k |-> "inf", v |-> Sign(a.v) * Sign(b.v)])
    ELSE Fin((a.v \div Scale) * b.v + ((a.v % Scale) * b.v) \div Scale)

\* a < b on numbers (false when either is NaN)
JsLT(a, b) ==
    IF a.k = "nan" \/ b.k = "nan" THEN FALSE
    ELSE IF a.k = "inf" THEN a.v < 0 /\ ~(b.k = "inf" /\ b.v < 0)
    ELSE IF b.k = "inf" THEN b.v > 0
    ELSE a.v < b.v

\* a > b on numbers
JsGT(a, b) == JsLT(b, a)

\* a >= b on numbers (false when either is NaN)
JsGE(a, b) == a.k # "nan" /\ b.k # "nan" /\ ~JsLT(a, b)

\* Math.min(a, b)
MathMin(a, b) ==
    IF a.k = "nan" \/ b.k = "nan" THEN NaN
    ELSE IF JsLT(b, a) THEN b ELSE a

\* Math.floor(a)
MathFloor(a) == IF a.k = "fin" THEN Fin((a.v \div Scale) * Scale) ELSE a

\* ----------------------------------------------------- outcomes of a call
NotCalled == [status |-> "none", error |-> ""]

ERR_AMOUNT == "Invalid transaction amount"
ERR_ARRAY == "Transactions must be an array"

\* --------------------------------------------- RewardCalculator, one amount
\* calculatePointsForTransaction with the low tier not capped at the high
\* threshold (amount - LOW_THRESHOLD instead of min(amount, HIGH_THRESHOLD)
\* - LOW_THRESHOLD)
calculatePointsForTransaction_NoCap(amount) ==
    IF ~IsNumber(amount) \/ IsNaN(amount) \/ JsLT(amount, Num(0))
    THEN [status |-> "threw", error |-> ERR_AMOUNT, value |-> Undefined]
    ELSE
      LET points1 ==
            IF JsGT(amount, Num(HIGH_THRESHOLD))
            THEN MathFloor(JsMul(JsSub(amount, Num(HIGH_THRESHOLD)),
                                 Num(HIGH_MULTIPLIER)))
            ELSE Num(0)
          amountForLowTier == JsSub(amount, Num(LOW_THRESHOLD))
          points2 ==
            IF JsGT(amountForLowTier, Num(0))
            THEN JsAdd(points1,
                       MathFloor(JsMul(amountForLowTier, Num(LOW_MULTIPLIER))))
            ELSE points1
      IN [status |-> "returned", error |-> "", value |-> points2]

\* calculatePointsForTransaction with the low tier computed only when the
\* amount is not over the high threshold (else if)
calculatePointsForTransaction_ElseIf(amount) ==
    IF ~IsNumber(amount) \/ IsNaN(amount) \/ JsLT(amount, Num(0))
    THEN [status |-> "threw", error |-> ERR_AMOUNT, value |-> Undefined]
    ELSE
      LET amountForLowTier ==
            JsSub(MathMin(amount, Num(HIGH_THRESHOLD)), Num(LOW_THRESHOLD))
          points ==
            IF JsGT(amount, Num(HIGH_THRESHOLD))
            THEN MathFloor(JsMul(JsSub(amount, Num(HIGH_THRESHOLD)),
                                 Num(HIGH_MULTIPLIER)))
            ELSE IF JsGT(amountForLowTier, Num(0))
            THEN MathFloor(JsMul(amountForLowTier, Num(LOW_MULTIPLIER)))
            ELSE Num(0)
      IN [status |-> "returned", error |-> "", value |-> points]

\* calculatePointsForTransaction with the amount over the high threshold
\* floored before it is multiplied
calculatePointsForTransaction_FloorFirst(amount) ==
    IF ~IsNumber(amount) \/ IsNaN(amount) \/ JsLT(amount, Num(0))
    THEN [status |-> "threw", error |-> ERR_AMOUNT, value |-> Undefined]
    ELSE
      LET points1 ==
            IF JsGT(amount, Num(HIGH_THRESHOLD))
            THEN JsMul(MathFloor(JsSub(amount, Num(HIGH_THRESHOLD))),
                       Num(HIGH_MULTIPLIER))
            ELSE Num(0)
          amountForLowTier ==
            JsSub(MathMin(amount, Num(HIGH_THRESHOLD)), Num(LOW_THRESHOLD))
          points2 ==
            IF JsGT(amountForLowTier, Num(0))
            THEN JsAdd(points1,
                       MathFloor(JsMul(amountForLowTier, Num(LOW_MULTIPLIER))))
            ELSE points1
      IN [status |-> "returned", error |-> "", value |-> points2]

\* calculatePointsForTransaction with the high tier rounded to the nearest
\* integer (Math.round) instead of floored
calculatePointsForTransaction_Round(amount) ==
    IF ~IsNumber(amount) \/ IsNaN(amount) \/ JsLT(amount, Num(0))
    THEN [status |-> "threw", error |-> ERR_AMOUNT, value |-> Undefined]
    ELSE
      LET points1 ==
            IF JsGT(amount, Num(HIGH_THRESHOLD))
            THEN MathFloor(JsAdd(JsMul(JsSub(amount, Num(HIGH_THRESHOLD)),
                                       Num(HIGH_MULTIPLIER)),
                                 Fin(Scale \div 2)))
            ELSE Num(0)
          amountForLowTier ==
            JsSub(MathMin(amount, Num(HIGH_THRESHOLD)), Num(LOW_THRESHOLD))
          points2 ==
            IF JsGT(amountForLowTier, Num(0))
            THEN JsAdd(points1,
                       MathFloor(JsMul(amountForLowTier, Num(LOW_MULTIPLIER))))
            ELSE points1
      IN [status |-> "returned", error |-> "", value |-> points2]

\* calculatePointsForTransaction(amount): the points, or the error thrown
calculatePointsForTransaction(amount) ==
    IF ~IsNumber(amount) \/ IsNaN(amount) \/ JsLT(amount, Num(0))
    THEN [status |-> "threw", error |-> ERR_AMOUNT, value |-> Undefined]
    ELSE
      LET points0 == Num(0)
          points1 ==
            IF JsGT(amount, Num(HIGH_THRESHOLD))
            THEN LET amountOverHundred == JsSub(amount, Num(HIGH_THRESHOLD))
                 IN JsAdd(points0,
                          MathFloor(JsMul(amountOverHundred, Num(HIGH_MULTIPLIER))))
            ELSE points0
          amountForLowTier ==
            JsSub(MathMin(amount, Num(HIGH_THRESHOLD)), Num(LOW_THRESHOLD))
          points2 ==
            IF JsGT(amountForLowTier, Num(0))
            THEN JsAdd(points1,
                       MathFloor(JsMul(amountForLowTier, Num(LOW_MULTIPLIER))))
            ELSE points1
      IN [status |-> "returned", error |-> "", value |-> points2]

\* getPointsBreakdown with the low tier not capped at the high threshold
getPointsBreakdown_NoCap(amount) ==
    IF ~IsNumber(amount) \/ IsNaN(amount) \/ JsLT(amount, Num(0))
    THEN [highTier |-> Num(0), lowTier |-> Num(0)]
    ELSE
      LET highTierPoints ==
            IF JsGT(amount, Num(HIGH_THRESHOLD))
            THEN MathFloor(JsMul(JsSub(amount, Num(HIGH_THRESHOLD)),
                                 Num(HIGH_MULTIPLIER)))
            ELSE Num(0)
          amountForLowTier == JsSub(amount, Num(LOW_THRESHOLD))
          lowTierPoints ==
            IF JsGT(amountForLowTier, Num(0))
            THEN MathFloor(JsMul(amountForLowTier, Num(LOW_MULTIPLIER)))
            ELSE Num(0)
      IN [highTier |-> highTierPoints, lowTier |-> lowTierPoints]

\* getPointsBreakdown(amount): the record {highTier, lowTier}
getPointsBreakdown(amount) ==
    IF ~IsNumber(amount) \/ IsNaN(amount) \/ JsLT(amount, Num(0))
    THEN [highTier |-> Num(0), lowTier |-> Num(0)]
    ELSE
      LET highTierPoints ==
            IF JsGT(amount, Num(HIGH_THRESHOLD))
            THEN LET amountOverHundred == JsSub(amount, Num(HIGH_THRESHOLD))
                 IN MathFloor(JsMul(amountOverHundred, Num(HIGH_MULTIPLIER)))
            ELSE Num(0)
          amountForLowTier ==
            JsSub(MathMin(amount, Num(HIGH_THRESHOLD)), Num(LOW_THRESHOLD))
          lowTierPoints ==
            IF JsGT(amountForLowTier, Num(0))
            THEN MathFloor(JsMul(amountForLowTier, Num(LOW_MULTIPLIER)))
            ELSE Num(0)
      IN [highTier |-> highTierPoints, lowTier |-> lowTierPoints]

\* isValidAmount(amount)
isValidAmount(amount) ==
    IsNumber(amount) /\ ~IsNaN(amount) /\ JsGE(amount, Num(0))

\* -------------------------------------------------------- month-year keys
\* A string is the sequence of its characters; the name of a month and the
\* words 'Unknown' and 'Invalid Date' are each one element of the sequence.
Digits == <<"0", "1", "2", "3", "4", "5", "6", "7", "8", "9">>
IsDigit(c) == \E d \in 1..10 : Digits[d] = c
DigitValue(c) == (CHOOSE d \in 1..10 : Digits[d] = c) - 1

\* the argument of getMonthYearDisplay: a string, or a value of another type
StringOf(chars) == [isString |-> TRUE, chars |-> chars]
NotString == [isString |-> FALSE, chars |-> <<>>]

\* s.includes(c)
includes(s, c) == \E i \in 1..Len(s) : s[i] = c

\* s.split(c): the parts of s between the occurrences of c
RECURSIVE split(_, _)
split(s, c) ==
    IF ~includes(s, c) THEN <<s>>
    ELSE LET i == CHOOSE j \in 1..Len(s) :
                     s[j] = c /\ \A l \in 1..(j - 1) : s[l] # c
         IN <<SubSeq(s, 1, i - 1)>> \o split(SubSeq(s, i + 1, Len(s)), c)

\* the value of the longest prefix of digits of s from character i on, after
\* the value acc of the digits before i
RECURSIVE ParseDigits(_, _, _)
ParseDigits(s, i, acc) ==
    IF i > Len(s) \/ ~IsDigit(s[i]) THEN acc
    ELSE ParseDigits(s, i + 1, 10 * acc + DigitValue(s[i]))

\* parseInt(s, 10) for a string s without sign and blanks: the number its
\* leading digits spell, NaN when it starts with no digit
parseInt(s) ==
    IF Len(s) = 0 \/ ~IsDigit(s[1]) THEN NaN ELSE Num(ParseDigits(s, 1, 0))

monthNames ==
    <<"January", "February", "March", "April", "May", "June", "July",
      "August", "September", "October", "November", "December">>

\* getMonthYearDisplay with the month number used as the index
\* (monthNames[parseInt(month, 10)])
getMonthYearDisplay_OffByOne(monthYearKey) ==
    IF ~monthYearKey.isString \/ ~includes(monthYearKey.chars, "-")
    THEN <<"Invalid Date">>
    ELSE
      LET parts == split(monthYearKey.chars, "-")
          monthIndex == parseInt(parts[2])
          monthName ==
            IF monthIndex.k = "fin" /\ monthIndex.v % Scale = 0
               /\ monthIndex.v \div Scale \in 0..11
            THEN monthNames[monthIndex.v \div Scale + 1]
            ELSE "Unknown"
      IN <<monthName, " ">> \o parts[1]

\* getMonthYearDisplay(monthYearKey): '<MonthName> <YYYY>'
getMonthYearDisplay(monthYearKey) ==
    IF ~monthYearKey.isString \/ ~includes(monthYearKey.chars, "-")
    THEN <<"Invalid Date">>
    ELSE
      LET parts == split(monthYearKey.chars, "-")
          year == parts[1]
          month == parts[2]
          monthIndex == JsSub(parseInt(month), Num(1))
          monthName ==
            IF monthIndex.k = "fin" /\ monthIndex.v % Scale = 0
               /\ monthIndex.v \div Scale \in 0..11
            THEN monthNames[monthIndex.v \div Scale + 1]
            ELSE "Unknown"
      IN <<monthName, " ">> \o year

\* ------------------------------------------------------------ transactions
\* the field pointsBreakdown of an object that has none
NoBreakdown == [highTier |-> Undefined, lowTier |-> Undefined]

\* an element of a transactions array: null, or an object with the fields
\* transactionId, amount, date, points and pointsBreakdown (Undefined when
\* the field is absent); ref is the identity of the object, 0 for null
NullTx ==
    [kind |-> "null", ref |-> 0, transactionId |-> Undefined,
     amount |-> Undefined, date |-> Undefined, points |-> Undefined,
     pointsBreakdown |-> NoBreakdown]
Tx(id, amount, date) ==
    [kind |-> "object", ref |-> 0, transactionId |-> id, amount |-> amount,
     date |-> date, points |-> Undefined, pointsBreakdown |-> NoBreakdown]
\* the transaction id 'T<n>'
TxId(n) == [k |-> "id", v |-> n]
\* the date string 'YYYY-MM-DD'
DateStr(y, m, d) == [k |-> "date", v |-> y * 10000 + m * 100 + d]

\* !x
Falsy(x) ==
    \/ x.k \in {"undefined", "null", "nan"}
    \/ x = EmptyStr
    \/ x = Fin(0)

\* new Date(x) for a string x: the UTC calendar day of a date string, an
\* invalid Date (getTime() is NaN) for any other string
NewDate(x) ==
    IF x.k = "date"
    THEN [valid |-> TRUE, y |-> x.v \div 10000, m |-> (x.v \div 100) % 100,
          d |-> x.v % 100]
    ELSE [valid |-> FALSE, y |-> 0, m |-> 0, d |-> 0]

\* Date.getFullYear(): the year of the local day; a date string is parsed as
\* midnight UTC, which is the day before in a zone west of Greenwich
getFullYear(date, west) ==
    IF west /\ date.d = 1 /\ date.m = 1 THEN date.y - 1 ELSE date.y

\* Date.getMonth(): the month of the local day, January is 0
getMonth(date, west) ==
    IF west /\ date.d = 1
    THEN (IF date.m = 1 THEN 11 ELSE date.m - 2)
    ELSE date.m - 1

\* String(n) for a natural number n, as a sequence of characters
RECURSIVE String(_)
String(n) ==
    LET digit == SubSeq(<<"0", "1", "2", "3", "4", "5", "6", "7", "8", "9">>,
                        (n % 10) + 1, (n % 10) + 1)
    IN IF n < 10 THEN digit ELSE String(n \div 10) \o digit

\* s.padStart(n, c)
RECURSIVE padStart(_, _, _)
padStart(s, n, c) == IF Len(s) >= n THEN s ELSE padStart(<<c>> \o s, n, c)

\* getMonthYearKey(date): 'YYYY-MM'
getMonthYearKey(date, west) ==
    LET year == getFullYear(date, west)
        month == padStart(String(getMonth(date, west) + 1), 2, "0")
    IN String(year) \o <<"-">> \o month

\* the argument of a batch operation: an array of elements, or another value
ArrayOf(items) == [isArray |-> TRUE, items |-> items, other |-> Undefined]
NotArray(x) == [isArray |-> FALSE, items |-> <<>>, other |-> x]

\* the loop of calculateTotalPoints from element i on
RECURSIVE TotalPointsLoop(_, _, _)
TotalPointsLoop(items, i, totalPoints) ==
    IF i > Len(items) THEN totalPoints
    ELSE
      LET transaction == items[i] IN
      IF transaction.kind = "null" \/ ~IsNumber(transaction.amount)
      THEN TotalPointsLoop(items, i + 1, totalPoints)
      ELSE
        LET points == calculatePointsForTransaction(transaction.amount) IN
        IF points.status = "threw"
        THEN TotalPointsLoop(items, i + 1, totalPoints)
        ELSE TotalPointsLoop(items, i + 1, JsAdd(totalPoints, points.value))

\* calculateTotalPoints without the try/catch around an element: the error
\* of calculatePointsForTransaction on a rejected amount leaves the call
calculateTotalPoints_NoCatch(transactions) ==
    IF ~transactions.isArray
    THEN [status |-> "threw", error |-> ERR_ARRAY, value |-> Undefined,
          input |-> transactions]
    ELSE IF \E i \in 1..Len(transactions.items) :
               /\ transactions.items[i].kind = "object"
               /\ IsNumber(transactions.items[i].amount)
               /\ calculatePointsForTransaction(
                      transactions.items[i].amount).status = "threw"
    THEN [status |-> "threw", error |-> ERR_AMOUNT, value |-> Undefined,
          input |-> transactions]
    ELSE [status |-> "returned", error |-> "",
          value |-> TotalPointsLoop(transactions.items, 1, Num(0)),
          input |-> transactions]

\* calculateTotalPoints(transactions): the outcome, the value returned and
\* the argument as the call leaves it (the method writes to no element)
calculateTotalPoints(transactions) ==
    IF ~transactions.isArray
    THEN [status |-> "threw", error |-> ERR_ARRAY, value |-> Undefined,
          input |-> transactions]
    ELSE IF Len(transactions.items) = 0
    THEN [status |-> "returned", error |-> "", value |-> Num(0),
          input |-> transactions]
    ELSE [status |-> "returned", error |-> "",
          value |-> TotalPointsLoop(transactions.items, 1, Num(0)),
          input |-> transactions]

\* the index of the bucket of a month key in the breakdown, 0 when absent
BucketIndex(monthlyBreakdown, monthYear) ==
    LET found == {j \in 1..Len(monthlyBreakdown) :
                     monthlyBreakdown[j].key = monthYear}
    IN IF found = {} THEN 0 ELSE CHOOSE j \in found : TRUE

\* the bucket update without points += points
Accumulate_NoPoints(monthlyBreakdown, monthYear, points, amount) ==
    LET created ==
          IF BucketIndex(monthlyBreakdown, monthYear) = 0
          THEN Append(monthlyBreakdown,
                      [key |-> monthYear, points |-> Num(0),
                       transactionCount |-> 0, totalAmount |-> Num(0)])
          ELSE monthlyBreakdown
        j == BucketIndex(created, monthYear)
    IN [created EXCEPT
          ![j].transactionCount = @ + 1,
          ![j].totalAmount = JsAdd(@, amount)]

\* monthlyBreakdown[monthYear] created when absent, then accumulated into
Accumulate(monthlyBreakdown, monthYear, points, amount) ==
    LET created ==
          IF BucketIndex(monthlyBreakdown, monthYear) = 0
          THEN Append(monthlyBreakdown,
                      [key |-> monthYear, points |-> Num(0),
                       transactionCount |-> 0, totalAmount |-> Num(0)])
          ELSE monthlyBreakdown
        j == BucketIndex(created, monthYear)
    IN [created EXCEPT
          ![j].points = JsAdd(@, points),
          ![j].transactionCount = @ + 1,
          ![j].totalAmount = JsAdd(@, amount)]

\* the loop of calculateMonthlyBreakdown from element i on; the breakdown is
\* the sequence of its buckets in the order of their insertion
RECURSIVE MonthlyBreakdownLoop(_, _, _, _)
MonthlyBreakdownLoop(items, i, monthlyBreakdown, west) ==
    IF i > Len(items) THEN monthlyBreakdown
    ELSE
      LET transaction == items[i] IN
      IF \/ transaction.kind = "null"
         \/ ~IsNumber(transaction.amount)
         \/ Falsy(transaction.date)
      THEN MonthlyBreakdownLoop(items, i + 1, monthlyBreakdown, west)
      ELSE
        LET transactionDate == NewDate(transaction.date) IN
        IF ~transactionDate.valid
        THEN MonthlyBreakdownLoop(items, i + 1, monthlyBreakdown, west)
        ELSE
          LET monthYear == getMonthYearKey(transactionDate, west)
              points == calculatePointsForTransaction(transaction.amount)
          IN IF points.status = "threw"
             THEN MonthlyBreakdownLoop(items, i + 1, monthlyBreakdown, west)
             ELSE MonthlyBreakdownLoop(items, i + 1,
                      Accumulate(monthlyBreakdown, monthYear, points.value,
                                 transaction.amount),
                      west)

\* calculateMonthlyBreakdown(transactions): the outcome, the breakdown and
\* the argument as the call leaves it (the method writes to its buckets only)
calculateMonthlyBreakdown(transactions, west) ==
    IF ~transactions.isArray
    THEN [status |-> "threw", error |-> ERR_ARRAY, value |-> <<>>,
          input |-> transactions]
    ELSE [status |-> "returned", error |-> "",
          value |-> MonthlyBreakdownLoop(transactions.items, 1, <<>>, west),
          input |-> transactions]

\* the identity of the next object created, after those of the argument and
\* those created so far
NewRef(items, created) == Len(items) + Len(created) + 1

\* WithPoints with the new points added to the points the transaction has
\* (points: (transaction.points || 0) + points)
WithPoints_Accumulate(transaction, points, pointsBreakdown, ref) ==
    [transaction EXCEPT
        !.ref = ref,
        !.points = IF IsNumber(transaction.points)
                   THEN JsAdd(transaction.points, points) ELSE points,
        !.pointsBreakdown = pointsBreakdown]

\* {...transaction, points, pointsBreakdown}: a new object with the fields of
\* the transaction, then points and pointsBreakdown
WithPoints(transaction, points, pointsBreakdown, ref) ==
    [transaction EXCEPT !.ref = ref, !.points = points,
                        !.pointsBreakdown = pointsBreakdown]

\* the loop of calculatePointsWithDetails from element i on
RECURSIVE PointsWithDetailsLoop(_, _, _)
PointsWithDetailsLoop(items, i, transactionsWithPoints) ==
    IF i > Len(items) THEN transactionsWithPoints
    ELSE
      LET transaction == items[i] IN
      IF transaction.kind = "null" \/ ~IsNumber(transaction.amount)
      THEN PointsWithDetailsLoop(items, i + 1, transactionsWithPoints)
      ELSE
        LET points == calculatePointsForTransaction(transaction.amount) IN
        IF points.status = "threw"
        THEN PointsWithDetailsLoop(items, i + 1,
                 Append(transactionsWithPoints,
                        WithPoints(transaction, Num(0),
                                   [highTier |-> Num(0), lowTier |-> Num(0)],
                                   NewRef(items, transactionsWithPoints))))
        ELSE PointsWithDetailsLoop(items, i + 1,
                 Append(transactionsWithPoints,
                        WithPoints(transaction, points.value,
                                   getPointsBreakdown(transaction.amount),
                                   NewRef(items, transactionsWithPoints))))

\* calculatePointsWithDetails with the points written into the transaction
\* itself, which is then pushed (transaction.points = points; push(transaction))
calculatePointsWithDetails_InPlace(transactions) ==
    IF ~transactions.isArray
    THEN [status |-> "threw", error |-> ERR_ARRAY, value |-> <<>>,
          input |-> transactions]
    ELSE
      LET items == transactions.items
          Emitted(t) == t.kind = "object" /\ IsNumber(t.amount)
          written ==
            [i \in 1..Len(items) |->
                IF ~Emitted(items[i]) THEN items[i]
                ELSE LET points == calculatePointsForTransaction(items[i].amount)
                     IN IF points.status = "threw"
                        THEN WithPoints(items[i], Num(0),
                                 [highTier |-> Num(0), lowTier |-> Num(0)],
                                 items[i].ref)
                        ELSE WithPoints(items[i], points.value,
                                 getPointsBreakdown(items[i].amount),
                                 items[i].ref)]
      IN [status |-> "returned", error |-> "",
          value |-> SelectSeq(written, Emitted),
          input |-> [transactions EXCEPT !.items = written]]

\* calculatePointsWithDetails(transactions): the outcome, the records and the
\* argument as the call leaves it (the method writes to new objects only)
calculatePointsWithDetails(transactions) ==
    IF ~transactions.isArray
    THEN [status |-> "threw", error |-> ERR_ARRAY, value |-> <<>>,
          input |-> transactions]
    ELSE [status |-> "returned", error |-> "",
          value |-> PointsWithDetailsLoop(transactions.items, 1, <<>>),
          input |-> transactions]

\* ------------------------------------------------------------ DataService
\* CONSTANTS.API.ERROR_RATE
ERROR_RATE == 0

\* A message is the sequence of the pieces of its template string.
ERR_HTTP == "HTTP error! status: "
ERR_CUSTOMERS_FORMAT == "Invalid customers data format"
ERR_TRANSACTIONS_FORMAT == "Invalid transactions data format"
ERR_NO_CUSTOMER == "No valid customer data found"
ERR_NO_TRANSACTION == "No valid transaction data found"
ERR_SIMULATED == "Simulated network error"
ERR_LOAD_CUSTOMERS == "Failed to load customers data: "
ERR_LOAD_TRANSACTIONS == "Failed to load transactions data: "
\* the TypeError of reading a property of null
ERR_NULL_RECORD == "Cannot read properties of null"

\* a Map: a function from its keys
NewMap == [key \in {} |-> <<>>]
MapHas(map, key) == key \in DOMAIN map
MapSet(map, key, value) ==
    [x \in (DOMAIN map) \cup {key} |-> IF x = key THEN value ELSE map[x]]

\* new DataService()
NewDataService ==
    [customers |-> <<>>, transactions |-> <<>>, isLoading |-> FALSE,
     cache |-> NewMap]

\* the customer id 'CUST00<n>' and the name of customer n
CustId(n) == [k |-> "customerId", v |-> n]
Name(n) == [k |-> "name", v |-> n]

\* String(x) for a truthy value x: x itself for a string, the decimal
\* numeral for a number
StringValue(x) == IF x.k = "fin" THEN [k |-> "numeral", v |-> x.v] ELSE x

\* a record of the customers data, and null
RawCustomer(customerId, name, email, joinDate) ==
    [kind |-> "object", customerId |-> customerId, name |-> name,
     email |-> email, joinDate |-> joinDate]
NullCustomer ==
    [kind |-> "null", customerId |-> Undefined, name |-> Undefined,
     email |-> Undefined, joinDate |-> Undefined]

\* a record of the transactions data, and null
RawTransaction(transactionId, customerId, amount, date) ==
    [kind |-> "object", transactionId |-> transactionId,
     customerId |-> customerId, amount |-> amount, date |-> date]
NullTransaction ==
    [kind |-> "null", transactionId |-> Undefined, customerId |-> Undefined,
     amount |-> Undefined, date |-> Undefined]

\* the outcome of a validation: the validated records, or the error thrown
Validated(value) == [threw |-> FALSE, message |-> <<>>, value |-> value]
Thrown(message) == [threw |-> TRUE, message |-> message, value |-> <<>>]

\* the loop of validateCustomersData from record i on
RECURSIVE ValidateCustomersLoop(_, _, _)
ValidateCustomersLoop(data, i, validatedData) ==
    IF i > Len(data) THEN Validated(validatedData)
    ELSE
      LET customer == data[i]
      IN IF customer.kind = "null" THEN Thrown(<<ERR_NULL_RECORD>>)
         ELSE IF Falsy(customer.customerId) \/ Falsy(customer.name)
         THEN ValidateCustomersLoop(data, i + 1, validatedData)
         ELSE ValidateCustomersLoop(data, i + 1,
                Append(validatedData,
                       [customerId |-> StringValue(customer.customerId),
                        name |-> StringValue(customer.name),
                        email |-> IF Falsy(customer.email) THEN EmptyStr
                                  ELSE StringValue(customer.email),
                        joinDate |-> IF Falsy(customer.joinDate) THEN EmptyStr
                                     ELSE StringValue(customer.joinDate)]))

\* validateCustomersData that returns an empty list
validateCustomersData_NoThrow(data) == ValidateCustomersLoop(data, 1, <<>>)

\* validateCustomersData(data)
validateCustomersData(data) ==
    LET loop == ValidateCustomersLoop(data, 1, <<>>)
    IN IF ~loop.threw /\ Len(loop.value) = 0
       THEN Thrown(<<ERR_NO_CUSTOMER>>)
       ELSE loop

\* the loop of validateTransactionsData from record i on
RECURSIVE ValidateTransactionsLoop(_, _, _)
ValidateTransactionsLoop(data, i, validatedData) ==
    IF i > Len(data) THEN Validated(validatedData)
    ELSE
      LET transaction == data[i]
      IN IF transaction.kind = "null" THEN Thrown(<<ERR_NULL_RECORD>>)
         ELSE IF \/ Falsy(transaction.transactionId)
                 \/ Falsy(transaction.customerId)
                 \/ ~IsNumber(transaction.amount)
                 \/ Falsy(transaction.date)
         THEN ValidateTransactionsLoop(data, i + 1, validatedData)
         ELSE IF ~NewDate(transaction.date).valid
         THEN ValidateTransactionsLoop(data, i + 1, validatedData)
         ELSE ValidateTransactionsLoop(data, i + 1,
                Append(validatedData,
                       [transactionId |-> StringValue(transaction.transactionId),
                        customerId |-> StringValue(transaction.customerId),
                        amount |-> transaction.amount,
                        date |-> StringValue(transaction.date)]))

\* validateTransactionsData(data)
validateTransactionsData(data) ==
    LET loop == ValidateTransactionsLoop(data, 1, <<>>)
    IN IF ~loop.threw /\ Len(loop.value) = 0
       THEN Thrown(<<ERR_NO_TRANSACTION>>)
       ELSE loop

\* checkForSimulatedError(): whether it throws when Math.random() is below
\* the error rate
checkForSimulatedError(randomBelowRate) == ERROR_RATE > 0 /\ randomBelowRate

\* what an awaited promise settled with: the promise of fetch with a
\* rejection or a response, the promise of response.json() with a rejection
\* or the data
NothingAwaited ==
    [from |-> "none", settles |-> "none", message |-> "", ok |-> FALSE,
     status |-> "", data |-> NotArray(Undefined)]
FetchRejected(message) ==
    [from |-> "fetch", settles |-> "rejected", message |-> message,
     ok |-> FALSE, status |-> "", data |-> NotArray(Undefined)]
Response(ok, status) ==
    [from |-> "fetch", settles |-> "resolved", message |-> "", ok |-> ok,
     status |-> status, data |-> NotArray(Undefined)]
JsonRejected(message) ==
    [from |-> "json", settles |-> "rejected", message |-> message,
     ok |-> TRUE, status |-> "200", data |-> NotArray(Undefined)]
JsonData(data) ==
    [from |-> "json", settles |-> "resolved", message |-> "", ok |-> TRUE,
     status |-> "200", data |-> data]

\* the last operation of the service that completed: the operation, whether
\* it resolved or rejected, its error or value, the return statement that
\* served the value, and what the promise it awaited last settled with
NothingSettled ==
    [op |-> "none", status |-> "none", error |-> <<>>, value |-> <<>>,
     served |-> "none", awaited |-> NothingAwaited]
Resolved(op, value, served, awaited) ==
    [op |-> op, status |-> "resolved", error |-> <<>>, value |-> value,
     served |-> served, awaited |-> awaited]
Rejected(op, error, awaited) ==
    [op |-> op, status |-> "rejected", error |-> error, value |-> <<>>,
     served |-> "none", awaited |-> awaited]

\* a string given as its characters
Chars(s) == [k |-> "chars", v |-> s]
\* the month filter 'last3'
Last3 == Chars(<<"l", "a", "s", "t", "3">>)

\* the filters argument: an object with month and year, null, or no argument
Filters(month, year) == [kind |-> "object", month |-> month, year |-> year]
NullFilters == [kind |-> "null", month |-> Undefined, year |-> Undefined]
NoFilters == [kind |-> "undefined", month |-> Undefined, year |-> Undefined]

\* a calendar day, and the day of a date string
Day(y, m, d) == y * 10000 + m * 100 + d
DayOf(x) == x.v

\* new Date(now.getFullYear(), now.getMonth() - 3, now.getDate()) for a day
\* of the month that every month has
threeMonthsBefore(now) ==
    LET y == now \div 10000
        m == (now \div 100) % 100
        d == now % 100
    IN IF m > 3 THEN Day(y, m - 3, d) ELSE Day(y - 1, m + 9, d)

\* transactionDate >= threeMonthsAgo && transactionDate <= now: the date of
\* a transaction is midnight UTC of its day, threeMonthsAgo is the local
\* midnight of its day, which is later than its midnight UTC in a zone west
\* of Greenwich, and now is the local noon of its day
InLastThreeMonths(transaction, now, west) ==
    /\ IF west THEN DayOf(transaction.date) > threeMonthsBefore(now)
               ELSE DayOf(transaction.date) >= threeMonthsBefore(now)
    /\ DayOf(transaction.date) <= now

\* getLastThreeMonthsTransactions(transactions)
getLastThreeMonthsTransactions(list, now, west) ==
    SelectSeq(list, LAMBDA transaction : InLastThreeMonths(transaction, now, west))

\* applyDateFilters(transactions, filters)
applyDateFilters(list, filters, now, west) ==
    IF filters.kind # "object" THEN list
    ELSE
      LET month == filters.month
          year == filters.year
      IN IF month = Last3 \/ Falsy(month)
         THEN getLastThreeMonthsTransactions(list, now, west)
         ELSE SelectSeq(list, LAMBDA transaction :
                LET transactionDate == NewDate(transaction.date)
                    transactionMonth ==
                      Chars(padStart(String(getMonth(transactionDate, west) + 1),
                                     2, "0"))
                    transactionYear ==
                      Chars(String(getFullYear(transactionDate, west)))
                    monthMatches == Falsy(month) \/ transactionMonth = month
                    yearMatches == Falsy(year) \/ transactionYear = year
                IN monthMatches /\ yearMatches)

\* sorted with t inserted: after the elements that are not older than t, as
\* the stable sort with (a, b) => new Date(b.date) - new Date(a.date) places
\* it
RECURSIVE InsertByDate(_, _)
InsertByDate(sorted, t) ==
    IF sorted = <<>> THEN <<t>>
    ELSE IF DayOf(Head(sorted).date) >= DayOf(t.date)
    THEN <<Head(sorted)>> \o InsertByDate(Tail(sorted), t)
    ELSE <<t>> \o sorted

\* list.sort((a, b) => new Date(b.date) - new Date(a.date))
RECURSIVE SortByDateDescending(_)
SortByDateDescending(list) ==
    IF list = <<>> THEN <<>>
    ELSE InsertByDate(SortByDateDescending(SubSeq(list, 1, Len(list) - 1)),
                      list[Len(list)])

\* getTransactionsForCustomer that ignores the filters
getTransactionsForCustomer_NoDateFilter(stored, customerId, filters, now, west) ==
    IF Falsy(customerId) THEN [value |-> <<>>, stored |-> stored]
    ELSE
      LET customerTransactions ==
            SelectSeq(stored, LAMBDA transaction :
                        transaction.customerId = customerId)
      IN [value |-> SortByDateDescending(customerTransactions),
          stored |-> stored]

\* getTransactionsForCustomer(customerId, filters) on the stored
\* transactions: the list returned and the stored transactions after the call
getTransactionsForCustomer(stored, customerId, filters, now, west) ==
    IF Falsy(customerId) THEN [value |-> <<>>, stored |-> stored]
    ELSE
      LET given == IF filters.kind = "undefined"
                   THEN Filters(Undefined, Undefined) ELSE filters
          customerTransactions ==
            SelectSeq(stored, LAMBDA transaction :
                        transaction.customerId = customerId)
          filtered ==
            IF given.kind = "object"
               /\ (~Falsy(given.month) \/ ~Falsy(given.year))
            THEN applyDateFilters(customerTransactions, given, now, west)
            ELSE customerTransactions
      IN [value |-> SortByDateDescending(filtered), stored |-> stored]

\* no query made
NoQuery ==
    [op |-> "none", customerId |-> Undefined, filters |-> NoFilters,
     now |-> 0, result |-> <<>>]

\* ------------------------------------------------------ PaginationManager
\* Math.ceil(a / b) for integers a >= 0 and b >= 1
MathCeil(a, b) == (a + b - 1) \div b

\* parseInt(x, 10) of a value: a number is written out and read up to its
\* decimal point, a string is read as an optional sign and its leading
\* digits, everything else gives NaN
parseIntOf(x) ==
    IF x.k = "fin"
    THEN IF x.v >= 0 THEN Num(x.v \div Scale)
         ELSE Num(0 - ((0 - x.v) \div Scale))
    ELSE IF x.k = "chars"
    THEN IF Len(x.v) > 0 /\ x.v[1] = "-"
         THEN LET magnitude == parseInt(Tail(x.v))
              IN IF IsNaN(magnitude) THEN NaN ELSE Fin(0 - magnitude.v)
         ELSE parseInt(x.v)
    ELSE NaN

\* new PaginationManager(uiManager); onPageChangeCallback is TRUE when it
\* holds a function
NewPaginationManager ==
    [currentPage |-> DEFAULT_PAGE, itemsPerPage |-> TRANSACTIONS_PER_PAGE,
     totalItems |-> 0, totalPages |-> 0, data |-> <<>>,
     onPageChangeCallback |-> FALSE]

\* what an operation of the manager leaves: the manager, whether updateUI
\* ran, and the calls of the page-change callback it made
Done(manager, updatesUI, callbacks) ==
    [manager |-> manager, updatesUI |-> updatesUI, callbacks |-> callbacks]

\* this.data.slice(startIndex, endIndex) of the current page
getCurrentPageData(this) ==
    IF Len(this.data) = 0 THEN <<>>
    ELSE LET startIndex == (this.currentPage - 1) * this.itemsPerPage
             endIndex == IF startIndex + this.itemsPerPage < this.totalItems
                         THEN startIndex + this.itemsPerPage
                         ELSE this.totalItems
         IN SubSeq(this.data, startIndex + 1, endIndex)

\* the call of the page-change callback, when a function is registered
Callback(this) ==
    IF this.onPageChangeCallback
    THEN <<[page |-> this.currentPage, data |-> getCurrentPageData(this)]>>
    ELSE <<>>

hasNextPage(this) == this.currentPage < this.totalPages
hasPreviousPage(this) == this.currentPage > 1

\* initialize(data, onPageChangeCallback)
initialize(this, data, onPageChangeCallback) ==
    IF ~data.isArray THEN Done(this, FALSE, <<>>)
    ELSE Done([this EXCEPT
                 !.data = data.items,
                 !.totalItems = Len(data.items),
                 !.totalPages = MathCeil(Len(data.items), this.itemsPerPage),
                 !.currentPage = DEFAULT_PAGE,
                 !.onPageChangeCallback = onPageChangeCallback],
              TRUE, <<>>)

\* goToPage(pageNumber)
goToPage(this, pageNumber) ==
    LET page == parseIntOf(pageNumber)
    IN IF IsNaN(page) \/ page.v < Scale \/ page.v > this.totalPages * Scale
       THEN Done(this, FALSE, <<>>)
       ELSE IF page.v \div Scale = this.currentPage
       THEN Done(this, FALSE, <<>>)
       ELSE LET moved == [this EXCEPT !.currentPage = page.v \div Scale]
            IN Done(moved, TRUE, Callback(moved))

goToNextPage(this) ==
    IF hasNextPage(this) THEN goToPage(this, Num(this.currentPage + 1))
    ELSE Done(this, FALSE, <<>>)

goToPreviousPage(this) ==
    IF hasPreviousPage(this) THEN goToPage(this, Num(this.currentPage - 1))
    ELSE Done(this, FALSE, <<>>)

goToFirstPage(this) == goToPage(this, Num(1))

goToLastPage(this) == goToPage(this, Num(this.totalPages))

\* setItemsPerPage(itemsPerPage) that leaves currentPage as it is
setItemsPerPage_NoAdjust(this, itemsPerPage) ==
    LET items == parseIntOf(itemsPerPage)
    IN IF IsNaN(items) \/ items.v < Scale
       THEN Done(this, FALSE, <<>>)
       ELSE Done([this EXCEPT
                    !.itemsPerPage = items.v \div Scale,
                    !.totalPages =
                        MathCeil(this.totalItems, items.v \div Scale)],
                 TRUE, <<>>)

\* setItemsPerPage(itemsPerPage)
setItemsPerPage(this, itemsPerPage) ==
    LET items == parseIntOf(itemsPerPage)
    IN IF IsNaN(items) \/ items.v < Scale
       THEN Done(this, FALSE, <<>>)
       ELSE LET totalPages == MathCeil(this.totalItems, items.v \div Scale)
            IN Done([this EXCEPT
                       !.itemsPerPage = items.v \div Scale,
                       !.totalPages = totalPages,
                       !.currentPage =
                           IF this.currentPage > totalPages
                           THEN IF totalPages > 1 THEN totalPages ELSE 1
                           ELSE this.currentPage],
                    TRUE, <<>>)

\* reset()
reset(this) == Done([this EXCEPT !.currentPage = DEFAULT_PAGE], TRUE, <<>>)

\* updateData(newData)
updateData(this, newData) ==
    IF ~newData.isArray THEN Done(this, FALSE, <<>>)
    ELSE LET totalPages == MathCeil(Len(newData.items), this.itemsPerPage)
             updated ==
               [this EXCEPT
                  !.data = newData.items,
                  !.totalItems = Len(newData.items),
                  !.totalPages = totalPages,
                  !.currentPage =
                      IF this.currentPage > totalPages /\ totalPages > 0
                      THEN 1
                      ELSE IF totalPages = 0 THEN 1
                      ELSE this.currentPage]
         IN Done(updated, TRUE, Callback(updated))

\* the document: which of its views and controls are visible, the value of
\* customerSelect, the text of pageInfo, the disabled buttons, and the number
\* of listeners each of its controls has
NewDocument ==
    [loadingState |-> FALSE, errorState |-> FALSE, mainContent |-> TRUE,
     noDataState |-> FALSE, transactionDetails |-> FALSE,
     customerSelect |-> EmptyStr, paginationControls |-> FALSE,
     pageInfo |-> [currentPage |-> 0, totalPages |-> 0],
     prevPageDisabled |-> FALSE, nextPageDisabled |-> FALSE,
     listeners |-> 0]

\* updateUI() of the manager, with updateNavigationButtons(info)
updateUI(this, doc) ==
    [doc EXCEPT
       !.pageInfo = [currentPage |-> this.currentPage,
                     totalPages |-> this.totalPages],
       !.prevPageDisabled = ~hasPreviousPage(this),
       !.nextPageDisabled = ~hasNextPage(this),
       !.paginationControls = this.totalPages > 1]

\* no operation of the manager called yet
NoPageChange ==
    [op |-> "none", arg |-> Undefined, data |-> NotArray(Undefined),
     callbacks |-> <<>>]

\* ------------------------------------------------------------ the machine
\* One call of one operation of the calculator on drawn arguments.
VARIABLES
    amount,         \* the argument of the operations on one amount
    transactions,   \* the argument of the batch operations
    monthYearKey,   \* the argument of getMonthYearDisplay
    tzWest,         \* TRUE when the local time zone is west of Greenwich
    called,         \* the operation that was called, "none" before the call
    outcome,        \* whether the call returned or threw, and the error
    ret,            \* the value returned
    dataService,    \* the DataService: customers, transactions, isLoading, cache
    pending,        \* where each load of the service waits, "idle" outside a call
    settled,        \* the last operation of the service that completed
    fetchCalls,     \* the number of calls of fetch
    query,          \* the last query of the service: arguments, day, result
    paginationManager,  \* the PaginationManager
    pageChanges,    \* the last operation of the manager and its callback calls
    document,       \* the document the application shows
    app,            \* the App: its managers and its runs of init
    event           \* the last event dispatched on the document

calcVars == <<amount, transactions, monthYearKey, tzWest, called, outcome, ret>>
dataVars == <<dataService, pending, settled, fetchCalls, query>>
pageVars == <<paginationManager, pageChanges, document>>
appVars == <<app, event>>
vars == <<amount, transactions, monthYearKey, tzWest, called, outcome, ret,
          dataService, pending, settled, fetchCalls, query,
          paginationManager, pageChanges, document, app, event>>

\* no App constructed; uiManager is TRUE when the managers exist, inits
\* holds the callers of the runs of init that await loadData
NoApp ==
    [constructed |-> FALSE, uiManager |-> FALSE, isInitialized |-> FALSE,
     inits |-> <<>>]

\* no event dispatched
NoEvent == [type |-> "none", count |-> 0]

\* a manager after construction, and no application
InitPagination ==
    /\ paginationManager = NewPaginationManager
    /\ pageChanges = NoPageChange
    /\ document = NewDocument
    /\ app = NoApp
    /\ event = NoEvent

\* the service after construction, no call made
InitDataService ==
    /\ dataService = NewDataService
    /\ pending = [loadCustomers |-> "idle", loadTransactions |-> "idle"]
    /\ settled = NothingSettled
    /\ fetchCalls = 0
    /\ query = NoQuery
    /\ InitPagination

\* 999999.99, the amount of the test 'should handle very large amounts'
LargeAmount == Fin(999999 * Scale + (99 * Scale) \div 100)

\* the finite amounts up to MaxAmount drawn: the quarters and the amounts one
\* step of 1/Scale next to an integer (49.99, 50.01, 99.99, 100.01, ...)
Amounts ==
    {Fin(n) : n \in {m \in (0 - Scale)..(MaxAmount * Scale) :
                        m % 25 = 0 \/ m % Scale \in {1, Scale - 1}}}
        \cup {LargeAmount, NaN, PosInf, NegInf, Undefined, Null, Str}

\* the amounts and the dates of the elements drawn for the arrays
ElementAmounts ==
    {Fin(75 * Scale + Scale \div 2), Fin(125 * Scale + Scale - 1), Num(0 - 10), Str,
     PosInf}
ElementDates == {DateStr(2025, 1, 15), DateStr(2025, 2, 1), Str, Undefined}
Elements ==
    {NullTx} \cup {Tx(Undefined, a, d) : a \in ElementAmounts, d \in ElementDates}

\* the objects of an array are distinct objects, with the identities and the
\* transaction ids T1, T2, ... by position
Stamp(items) ==
    [i \in 1..Len(items) |->
        IF items[i].kind = "null" THEN items[i]
        ELSE [items[i] EXCEPT !.ref = i, !.transactionId = TxId(i)]]

Arrays == UNION {[1..n -> Elements] : n \in 0..MaxLen}

TransactionsArgs ==
    {ArrayOf(Stamp(items)) : items \in Arrays}
        \cup {NotArray(x) : x \in {Null, Undefined, Str, Num(5)}}

\* the month-year keys drawn: 'YYYY-MM' with a month number from 0 to
\* MaxMonthNumber, strings of another shape, and a value that is no string
MonthYearKeys ==
    {StringOf(String(y) \o <<"-">> \o padStart(String(m), 2, "0")) :
        y \in {2024, 2025}, m \in 0..MaxMonthNumber}
    \cup {StringOf(chars) : chars \in
            {<<>>, <<"-">>,
             <<"i", "n", "v", "a", "l", "i", "d">>,
             <<"2", "0", "2", "5">>,
             <<"2", "0", "2", "5", "-">>,
             <<"-", "0", "1">>,
             <<"2", "0", "2", "5", "-", "1">>,
             <<"2", "0", "2", "5", "-", "x", "y">>,
             <<"2", "0", "2", "5", "-", "0", "1", "-", "1", "5">>,
             <<"i", "n", "v", "a", "l", "i", "d", "-", "d", "a", "t", "e">>}}
    \cup {NotString}

Init ==
    /\ tzWest \in BOOLEAN
    /\ \/ /\ amount \in Amounts
          /\ transactions = NotArray(Undefined)
          /\ monthYearKey = NotString
       \/ /\ amount = Undefined
          /\ transactions \in TransactionsArgs
          /\ monthYearKey = NotString
       \/ /\ amount = Undefined
          /\ transactions = NotArray(Undefined)
          /\ monthYearKey \in MonthYearKeys
    /\ called = "none"
    /\ outcome = NotCalled
    /\ ret = Undefined
    /\ InitDataService

\* a call: the operation, its outcome, its value and its argument afterwards
Returns(op, r, after) ==
    /\ called = "none"
    /\ called' = op
    /\ outcome' = [status |-> r.status, error |-> r.error]
    /\ ret' = r.value
    /\ transactions' = after
    /\ UNCHANGED <<amount, monthYearKey, tzWest>>
    /\ UNCHANGED <<dataVars, pageVars, appVars>>

CallCalculatePointsForTransaction ==
    Returns("calculatePointsForTransaction",
            calculatePointsForTransaction(amount), transactions)

CallGetPointsBreakdown ==
    Returns("getPointsBreakdown",
            [status |-> "returned", error |-> "",
             value |-> getPointsBreakdown(amount)], transactions)

CallIsValidAmount ==
    Returns("isValidAmount",
            [status |-> "returned", error |-> "",
             value |-> isValidAmount(amount)], transactions)

CallCalculateTotalPoints ==
    Returns("calculateTotalPoints", calculateTotalPoints(transactions),
            calculateTotalPoints(transactions).input)

CallCalculateMonthlyBreakdown ==
    Returns("calculateMonthlyBreakdown",
            calculateMonthlyBreakdown(transactions, tzWest),
            calculateMonthlyBreakdown(transactions, tzWest).input)

CallCalculatePointsWithDetails ==
    Returns("calculatePointsWithDetails",
            calculatePointsWithDetails(transactions),
            calculatePointsWithDetails(transactions).input)

CallGetMonthYearDisplay ==
    Returns("getMonthYearDisplay",
            [status |-> "returned", error |-> "",
             value |-> getMonthYearDisplay(monthYearKey)], transactions)

Next ==
    \/ CallGetMonthYearDisplay
    \/ CallCalculatePointsForTransaction
    \/ CallGetPointsBreakdown
    \/ CallIsValidAmount
    \/ CallCalculateTotalPoints
    \/ CallCalculateMonthlyBreakdown
    \/ CallCalculatePointsWithDetails

Spec == Init /\ [][Next]_vars

\* ------------------------------------------------ the DataService machine
\* One DataService, its two loads and clearCache. A load runs from its call
\* to its first await, and from each await to the next or to its end; the
\* steps of the two loads interleave.

\* the customers data a response carries
RawCustomers ==
    {RawCustomer(CustId(1), Name(1), Str, DateStr(2021, 1, 15)),
     RawCustomer(Num(2), Name(2), Undefined, Undefined),
     RawCustomer(EmptyStr, EmptyStr, Undefined, Undefined),
     NullCustomer}

\* the transactions data a response carries
RawTransactions ==
    {RawTransaction(TxId(1), CustId(1), Fin(120 * Scale), DateStr(2025, 1, 15)),
     RawTransaction(Num(2), Num(2), Fin(75 * Scale + Scale \div 2),
                    DateStr(2025, 2, 1)),
     RawTransaction(TxId(3), CustId(1), Str, DateStr(2025, 1, 15)),
     RawTransaction(TxId(4), CustId(1), Fin(50 * Scale), Str),
     NullTransaction}

\* the arrays of at most MaxRecords records
ArraysOf(records) ==
    UNION {[1..n -> records] : n \in 0..MaxRecords}

\* what fetch settles with
FetchOutcomes ==
    {FetchRejected("Network error"), Response(FALSE, "404"),
     Response(TRUE, "200")}

\* what response.json() settles with
JsonOutcomes(records) ==
    {JsonRejected("Invalid JSON"), JsonData(NotArray(Undefined))}
    \cup {JsonData(ArrayOf(items)) : items \in ArraysOf(records)}

InitData ==
    /\ InitDataService
    /\ amount = Undefined
    /\ transactions = NotArray(Undefined)
    /\ monthYearKey = NotString
    /\ tzWest = FALSE
    /\ called = "none"
    /\ outcome = NotCalled
    /\ ret = Undefined

\* catch and finally of loadCustomers: the call rejects
RejectCustomers(cause, awaited) ==
    /\ dataService' = [dataService EXCEPT !.isLoading = FALSE]
    /\ pending' = [pending EXCEPT !.loadCustomers = "idle"]
    /\ settled' = Rejected("loadCustomers", <<ERR_LOAD_CUSTOMERS>> \o cause,
                           awaited)

\* loadCustomers() without this.isLoading = true
LoadCustomers_NoFlag ==
    /\ pending.loadCustomers = "idle"
    /\ IF Len(dataService.customers) > 0
       THEN /\ settled' = Resolved("loadCustomers", dataService.customers,
                                   "memory", NothingAwaited)
            /\ UNCHANGED <<dataService, pending>>
       ELSE IF MapHas(dataService.cache, "customers")
       THEN /\ dataService' = [dataService EXCEPT
                                 !.customers = dataService.cache["customers"]]
            /\ settled' = Resolved("loadCustomers",
                                   dataService.cache["customers"], "cache",
                                   NothingAwaited)
            /\ UNCHANGED pending
       ELSE /\ fetchCalls < MaxFetches
            /\ pending' = [pending EXCEPT !.loadCustomers = "simulateDelay"]
            /\ UNCHANGED <<dataService, settled>>
    /\ UNCHANGED fetchCalls
    /\ UNCHANGED <<calcVars, query, pageVars, appVars>>

\* loadCustomers() that has no early return for loaded customers
LoadCustomers_NoEarlyReturn ==
    /\ pending.loadCustomers = "idle"
    /\ IF MapHas(dataService.cache, "customers") /\ dataService.customers = <<>>
       THEN /\ dataService' = [dataService EXCEPT
                                 !.customers = dataService.cache["customers"]]
            /\ settled' = Resolved("loadCustomers",
                                   dataService.cache["customers"], "cache",
                                   NothingAwaited)
            /\ UNCHANGED pending
       ELSE /\ fetchCalls < MaxFetches
            /\ dataService' = [dataService EXCEPT !.isLoading = TRUE]
            /\ pending' = [pending EXCEPT !.loadCustomers = "simulateDelay"]
            /\ UNCHANGED settled
    /\ UNCHANGED fetchCalls
    /\ UNCHANGED <<calcVars, query, pageVars, appVars>>

\* loadCustomers(): the call, up to await this.simulateDelay()
LoadCustomers ==
    /\ pending.loadCustomers = "idle"
    /\ IF Len(dataService.customers) > 0
       THEN /\ settled' = Resolved("loadCustomers", dataService.customers,
                                   "memory", NothingAwaited)
            /\ UNCHANGED <<dataService, pending>>
       ELSE IF MapHas(dataService.cache, "customers")
       THEN /\ dataService' = [dataService EXCEPT
                                 !.customers = dataService.cache["customers"]]
            /\ settled' = Resolved("loadCustomers",
                                   dataService.cache["customers"], "cache",
                                   NothingAwaited)
            /\ UNCHANGED pending
       ELSE /\ fetchCalls < MaxFetches
            /\ dataService' = [dataService EXCEPT !.isLoading = TRUE]
            /\ pending' = [pending EXCEPT !.loadCustomers = "simulateDelay"]
            /\ UNCHANGED settled
    /\ UNCHANGED fetchCalls
    /\ UNCHANGED <<calcVars, query, pageVars, appVars>>

\* loadCustomers() after the delay: checkForSimulatedError() and the call of
\* fetch
LoadCustomersFetch ==
    /\ pending.loadCustomers = "simulateDelay"
    /\ \E randomBelowRate \in BOOLEAN :
          IF checkForSimulatedError(randomBelowRate)
          THEN /\ RejectCustomers(<<ERR_SIMULATED>>, NothingAwaited)
               /\ UNCHANGED fetchCalls
          ELSE /\ fetchCalls' = fetchCalls + 1
               /\ pending' = [pending EXCEPT !.loadCustomers = "fetch"]
               /\ UNCHANGED <<dataService, settled>>
    /\ UNCHANGED <<calcVars, query, pageVars, appVars>>

\* loadCustomers() after fetch has settled: response.ok and the call of
\* response.json()
LoadCustomersResponse ==
    /\ pending.loadCustomers = "fetch"
    /\ \E response \in FetchOutcomes :
          IF response.settles = "rejected"
          THEN RejectCustomers(<<response.message>>, response)
          ELSE IF ~response.ok
          THEN RejectCustomers(<<ERR_HTTP, response.status>>, response)
          ELSE /\ pending' = [pending EXCEPT !.loadCustomers = "json"]
               /\ UNCHANGED <<dataService, settled>>
    /\ UNCHANGED fetchCalls
    /\ UNCHANGED <<calcVars, query, pageVars, appVars>>

\* loadCustomers() after response.json() has settled: validation, cache and
\* return
LoadCustomersData ==
    /\ pending.loadCustomers = "json"
    /\ \E json \in JsonOutcomes(RawCustomers) :
          IF json.settles = "rejected"
          THEN RejectCustomers(<<json.message>>, json)
          ELSE IF ~json.data.isArray
          THEN RejectCustomers(<<ERR_CUSTOMERS_FORMAT>>, json)
          ELSE LET validated == validateCustomersData(json.data.items)
               IN IF validated.threw
                  THEN RejectCustomers(validated.message, json)
                  ELSE /\ dataService' =
                            [dataService EXCEPT
                               !.customers = validated.value,
                               !.cache = MapSet(dataService.cache, "customers",
                                                validated.value),
                               !.isLoading = FALSE]
                       /\ pending' = [pending EXCEPT !.loadCustomers = "idle"]
                       /\ settled' = Resolved("loadCustomers", validated.value,
                                              "fetch", json)
    /\ UNCHANGED fetchCalls
    /\ UNCHANGED <<calcVars, query, pageVars, appVars>>

\* catch and finally of loadTransactions: the call rejects
RejectTransactions(cause, awaited) ==
    /\ dataService' = [dataService EXCEPT !.isLoading = FALSE]
    /\ pending' = [pending EXCEPT !.loadTransactions = "idle"]
    /\ settled' = Rejected("loadTransactions",
                           <<ERR_LOAD_TRANSACTIONS>> \o cause, awaited)

\* loadTransactions(): the call, up to await this.simulateDelay()
LoadTransactions ==
    /\ pending.loadTransactions = "idle"
    /\ IF Len(dataService.transactions) > 0
       THEN /\ settled' = Resolved("loadTransactions",
                                   dataService.transactions, "memory", NothingAwaited)
            /\ UNCHANGED <<dataService, pending>>
       ELSE IF MapHas(dataService.cache, "transactions")
       THEN /\ dataService' =
                 [dataService EXCEPT
                    !.transactions = dataService.cache["transactions"]]
            /\ settled' = Resolved("loadTransactions",
                                   dataService.cache["transactions"], "cache",
                                   NothingAwaited)
            /\ UNCHANGED pending
       ELSE /\ fetchCalls < MaxFetches
            /\ dataService' = [dataService EXCEPT !.isLoading = TRUE]
            /\ pending' = [pending EXCEPT !.loadTransactions = "simulateDelay"]
            /\ UNCHANGED settled
    /\ UNCHANGED fetchCalls
    /\ UNCHANGED <<calcVars, query, pageVars, appVars>>

\* loadTransactions() after the delay: checkForSimulatedError() and the call
\* of fetch
LoadTransactionsFetch ==
    /\ pending.loadTransactions = "simulateDelay"
    /\ \E randomBelowRate \in BOOLEAN :
          IF checkForSimulatedError(randomBelowRate)
          THEN /\ RejectTransactions(<<ERR_SIMULATED>>, NothingAwaited)
               /\ UNCHANGED fetchCalls
          ELSE /\ fetchCalls' = fetchCalls + 1
               /\ pending' = [pending EXCEPT !.loadTransactions = "fetch"]
               /\ UNCHANGED <<dataService, settled>>
    /\ UNCHANGED <<calcVars, query, pageVars, appVars>>

\* loadTransactions() after fetch has settled: response.ok and the call of
\* response.json()
LoadTransactionsResponse ==
    /\ pending.loadTransactions = "fetch"
    /\ \E response \in FetchOutcomes :
          IF response.settles = "rejected"
          THEN RejectTransactions(<<response.message>>, response)
          ELSE IF ~response.ok
          THEN RejectTransactions(<<ERR_HTTP, response.status>>, response)
          ELSE /\ pending' = [pending EXCEPT !.loadTransactions = "json"]
               /\ UNCHANGED <<dataService, settled>>
    /\ UNCHANGED fetchCalls
    /\ UNCHANGED <<calcVars, query, pageVars, appVars>>

\* loadTransactions() after response.json() has settled: validation, cache
\* and return
LoadTransactionsData ==
    /\ pending.loadTransactions = "json"
    /\ \E json \in JsonOutcomes(RawTransactions) :
          IF json.settles = "rejected"
          THEN RejectTransactions(<<json.message>>, json)
          ELSE IF ~json.data.isArray
          THEN RejectTransactions(<<ERR_TRANSACTIONS_FORMAT>>, json)
          ELSE LET validated == validateTransactionsData(json.data.items)
               IN IF validated.threw
                  THEN RejectTransactions(validated.message, json)
                  ELSE /\ dataService' =
                            [dataService EXCEPT
                               !.transactions = validated.value,
                               !.cache = MapSet(dataService.cache,
                                                "transactions",
                                                validated.value),
                               !.isLoading = FALSE]
                       /\ pending' =
                            [pending EXCEPT !.loadTransactions = "idle"]
                       /\ settled' = Resolved("loadTransactions",
                                              validated.value, "fetch", json)
    /\ UNCHANGED fetchCalls
    /\ UNCHANGED <<calcVars, query, pageVars, appVars>>

\* clearCache()
ClearCache ==
    /\ dataService' = [dataService EXCEPT !.cache = NewMap,
                                          !.customers = <<>>,
                                          !.transactions = <<>>]
    /\ settled' = Resolved("clearCache", <<>>, "none", NothingAwaited)
    /\ UNCHANGED <<pending, fetchCalls>>
    /\ UNCHANGED <<calcVars, query, pageVars, appVars>>

\* isDataLoading()
isDataLoading == dataService.isLoading

NextData ==
    \/ LoadCustomers
    \/ LoadCustomersFetch
    \/ LoadCustomersResponse
    \/ LoadCustomersData
    \/ LoadTransactions
    \/ LoadTransactionsFetch
    \/ LoadTransactionsResponse
    \/ LoadTransactionsData
    \/ ClearCache

SpecData == InitData /\ [][NextData]_vars

\* no load is between its call and its end
NoLoadPending ==
    pending.loadCustomers = "idle" /\ pending.loadTransactions = "idle"

\* The service as the application uses it (await loadCustomers(), then await
\* loadTransactions()): a load is called when no load is pending.
NextSingleLoad ==
    \/ NoLoadPending /\ LoadCustomers
    \/ LoadCustomersFetch
    \/ LoadCustomersResponse
    \/ LoadCustomersData
    \/ NoLoadPending /\ LoadTransactions
    \/ LoadTransactionsFetch
    \/ LoadTransactionsResponse
    \/ LoadTransactionsData
    \/ ClearCache

SpecSingleLoad == InitData /\ [][NextSingleLoad]_vars

\* -------------------------------------------------- the queries of a service
\* A DataService that has loaded its transactions, and the queries made of
\* it.

\* the transactions data the service has loaded
QueryRecords ==
    {RawTransaction(TxId(1), CustId(1), Fin(120 * Scale), DateStr(2025, 1, 15)),
     RawTransaction(TxId(2), CustId(1), Fin(75 * Scale + Scale \div 2),
                    DateStr(2025, 2, 1)),
     RawTransaction(TxId(3), CustId(1), Fin(50 * Scale), DateStr(2024, 1, 15)),
     RawTransaction(TxId(4), Num(2), Fin(100 * Scale), DateStr(2025, 1, 10))}

\* the lists of at most MaxStored transactions a load stores
StoredLists ==
    {validateTransactionsData(data).value :
        data \in UNION {[1..n -> QueryRecords] : n \in 1..MaxStored}}

\* the customer ids asked for: known, unknown, a number, empty, none
QueryCustomerIds ==
    {CustId(1), StringValue(Num(2)), CustId(9), Num(2), EmptyStr, Undefined}

\* the filters asked for
QueryFilters ==
    {NoFilters, NullFilters, Filters(Undefined, Undefined),
     Filters(Last3, Undefined)}
    \cup {Filters(month, year) :
            month \in {Chars(<<"0", "1">>), Chars(<<"0", "2">>)},
            year \in {Chars(String(2025)), Chars(String(2024))}}
    \cup {Filters(Undefined, Chars(String(2025))),
          Filters(Undefined, Chars(String(2024)))}

\* the days on which the queries are made
QueryDays == {Day(2025, 3, 15)}

InitQuery ==
    /\ tzWest \in BOOLEAN
    /\ \E list \in StoredLists :
          /\ dataService =
               [NewDataService EXCEPT
                  !.transactions = list,
                  !.cache = MapSet(NewMap, "transactions", list)]
          /\ settled = Resolved("loadTransactions", list, "fetch",
                                NothingAwaited)
    /\ pending = [loadCustomers |-> "idle", loadTransactions |-> "idle"]
    /\ fetchCalls = 1
    /\ query = NoQuery
    /\ InitPagination
    /\ amount = Undefined
    /\ transactions = NotArray(Undefined)
    /\ monthYearKey = NotString
    /\ called = "none"
    /\ outcome = NotCalled
    /\ ret = Undefined

CallGetTransactionsForCustomer ==
    /\ \E customerId \in QueryCustomerIds, filters \in QueryFilters,
          now \in QueryDays :
          LET r == getTransactionsForCustomer(dataService.transactions,
                                              customerId, filters, now, tzWest)
          IN /\ query' = [op |-> "getTransactionsForCustomer",
                          customerId |-> customerId, filters |-> filters,
                          now |-> now, result |-> r.value]
             /\ dataService' = [dataService EXCEPT !.transactions = r.stored]
    /\ UNCHANGED <<pending, settled, fetchCalls>>
    /\ UNCHANGED <<calcVars, pageVars, appVars>>

NextQuery ==
    \/ CallGetTransactionsForCustomer
    \/ ClearCache

SpecQuery == InitQuery /\ [][NextQuery]_vars

\* ------------------------------------------ the PaginationManager machine
\* One PaginationManager with a UIManager; each step is one call of one of
\* its operations on drawn arguments.

\* the arrays of items 1..n and a value that is no array
PageData ==
    {ArrayOf([i \in 1..n |-> i]) : n \in 0..MaxItems} \cup {NotArray(Null)}

\* the page numbers drawn: integers around 1..totalPages, 2.5, '2', '-1',
\* and values that are no numbers
PageNumbers ==
    {Num(n) : n \in (0 - 1)..(MaxItems + 1)}
        \cup {Fin(2 * Scale + Scale \div 2), Chars(<<"2">>),
              Chars(<<"-", "1">>), Str, NaN, Undefined, Null}

\* the numbers of items per page drawn
PerPageArgs ==
    {Num(n) : n \in (0 - 1)..MaxPerPage}
        \cup {Num(TRANSACTIONS_PER_PAGE), Fin(Scale + Scale \div 2),
              Chars(<<"2">>), Str, NaN, Undefined}

\* the call of an operation that leaves r
PageOperation(op, arg, data, r) ==
    /\ paginationManager' = r.manager
    /\ document' = IF r.updatesUI THEN updateUI(r.manager, document)
                   ELSE document
    /\ pageChanges' = [op |-> op, arg |-> arg, data |-> data,
                       callbacks |-> r.callbacks]
    /\ UNCHANGED <<calcVars, dataVars, appVars>>

Initialize ==
    \E data \in PageData, onPageChangeCallback \in BOOLEAN :
        PageOperation("initialize", Undefined, data,
                      initialize(paginationManager, data,
                                 onPageChangeCallback))

UpdateData ==
    \E newData \in PageData :
        PageOperation("updateData", Undefined, newData,
                      updateData(paginationManager, newData))

SetItemsPerPage ==
    \E itemsPerPage \in PerPageArgs :
        PageOperation("setItemsPerPage", itemsPerPage, NotArray(Undefined),
                      setItemsPerPage(paginationManager, itemsPerPage))

GoToPage ==
    \E pageNumber \in PageNumbers :
        PageOperation("goToPage", pageNumber, NotArray(Undefined),
                      goToPage(paginationManager, pageNumber))

GoToNextPage ==
    PageOperation("goToNextPage", Undefined, NotArray(Undefined),
                  goToNextPage(paginationManager))

GoToPreviousPage ==
    PageOperation("goToPreviousPage", Undefined, NotArray(Undefined),
                  goToPreviousPage(paginationManager))

GoToFirstPage ==
    PageOperation("goToFirstPage", Undefined, NotArray(Undefined),
                  goToFirstPage(paginationManager))

GoToLastPage ==
    PageOperation("goToLastPage", Undefined, NotArray(Undefined),
                  goToLastPage(paginationManager))

Reset ==
    PageOperation("reset", Undefined, NotArray(Undefined),
                  reset(paginationManager))

NextPagination ==
    \/ Initialize
    \/ UpdateData
    \/ SetItemsPerPage
    \/ GoToPage
    \/ GoToNextPage
    \/ GoToPreviousPage
    \/ GoToFirstPage
    \/ GoToLastPage
    \/ Reset

SpecPagination == InitData /\ [][NextPagination]_vars

\* ------------------------------------------------------------ the App
\* The application from the DOMContentLoaded event on.  A step is the run
\* of the listeners of one event, or the run of init from the moment
\* loadData settles.  The two loads of loadData are taken as a whole here:
\* the load settles with the customers and the transactions stored, or
\* rejects; the steps of the loads are those of the DataService machine.

\* showLoadingState() of App and of UIManager
showLoadingState(doc) ==
    [doc EXCEPT !.loadingState = TRUE, !.mainContent = FALSE,
                !.errorState = FALSE]

\* showMainContent() of App and of UIManager
showMainContent(doc) ==
    [doc EXCEPT !.loadingState = FALSE, !.errorState = FALSE,
                !.mainContent = TRUE]

\* showErrorState(message) that leaves mainContent as it is
showErrorState_KeepMain(doc) ==
    [doc EXCEPT !.loadingState = FALSE, !.errorState = TRUE]

\* showErrorState(message) of UIManager
showErrorState(doc) ==
    [doc EXCEPT !.loadingState = FALSE, !.mainContent = FALSE,
                !.errorState = TRUE]

\* the catch of the DOMContentLoaded handler
ShowErrorDirectly(doc) ==
    [doc EXCEPT !.loadingState = FALSE, !.errorState = TRUE]

\* showNoDataState() of UIManager
showNoDataState(doc) ==
    [doc EXCEPT !.noDataState = TRUE, !.transactionDetails = FALSE,
                !.paginationControls = FALSE]

\* hideAllCustomerSections()
hideAllCustomerSections(doc) ==
    [doc EXCEPT !.transactionDetails = FALSE, !.paginationControls = FALSE]

\* setupTransactionPagination(transactions)
setupTransactionPagination(doc, list) ==
    LET totalPages == MathCeil(Len(list), TRANSACTIONS_PER_PAGE)
    IN IF totalPages <= 1 THEN [doc EXCEPT !.paginationControls = FALSE]
       ELSE [doc EXCEPT !.paginationControls = TRUE,
                        !.pageInfo = [currentPage |-> 1,
                                      totalPages |-> totalPages]]

\* getCustomerById(customerId) finds a customer
HasCustomer(service, customerId) ==
    /\ ~Falsy(customerId)
    /\ \E i \in 1..Len(service.customers) :
          service.customers[i].customerId = customerId

\* displayCustomerData(customerId, filters) on the day now; threw tells
\* that a statement of its try block threw before the sections changed
displayCustomerData(doc, service, customerId, filters, now, west, threw) ==
    IF Falsy(customerId) THEN hideAllCustomerSections(doc)
    ELSE IF threw THEN showErrorState(doc)
    ELSE IF ~HasCustomer(service, customerId) THEN showNoDataState(doc)
    ELSE LET list == getTransactionsForCustomer(service.transactions,
                                                customerId, filters, now,
                                                west).value
         IN IF Len(list) = 0
            THEN hideAllCustomerSections(showNoDataState(doc))
            ELSE [setupTransactionPagination(doc, list) EXCEPT
                    !.transactionDetails = TRUE, !.noDataState = FALSE]

\* handleCustomerChange(event)
handleCustomerChange(doc, service, customerId, now, west, threw) ==
    IF Falsy(customerId)
    THEN [doc EXCEPT !.transactionDetails = FALSE, !.noDataState = FALSE]
    ELSE displayCustomerData(doc, service, customerId, NullFilters, now, west,
                             threw)

\* handleApplyFilters()
handleApplyFilters(doc, service, filters, now, west, threw) ==
    IF Falsy(doc.customerSelect) THEN doc
    ELSE displayCustomerData(doc, service, doc.customerSelect, filters, now,
                             west, threw)

\* the listeners of a click on nextPage (forward) or on prevPage, one after
\* the other: handleNextPage() or handlePreviousPage() of each
RECURSIVE HandlePageClicks(_, _, _)
HandlePageClicks(listeners, forward, done) ==
    IF listeners = 0 THEN done
    ELSE LET r == IF forward THEN goToNextPage(done.manager)
                  ELSE goToPreviousPage(done.manager)
         IN HandlePageClicks(listeners - 1, forward,
                             Done(r.manager, done.updatesUI \/ r.updatesUI,
                                  done.callbacks \o r.callbacks))

\* the customers and the transactions the loads store
AppCustomers ==
    validateCustomersData(
        <<RawCustomer(CustId(1), Name(1), Str, DateStr(2021, 1, 15)),
          RawCustomer(CustId(2), Name(2), Str, DateStr(2022, 1, 15))>>).value

AppTransactions(n) ==
    validateTransactionsData(
        [i \in 1..n |->
            RawTransaction(TxId(i), CustId(1), Fin(120 * Scale),
                           DateStr(2025, 1 + (i % 3), 10))]).value

\* what await this.loadData() settles with
LoadDataOutcomes ==
    {[loaded |-> "none", count |-> 0], [loaded |-> "customers", count |-> 0]}
        \cup {[loaded |-> "all", count |-> n] : n \in 1..MaxTransactions}

\* the values of customerSelect, the filters selected, and the day
AppCustomerIds == {EmptyStr, CustId(1), CustId(2)}
AppFilters ==
    {Filters(Last3, Chars(String(2025))),
     Filters(Chars(<<"0", "1">>), Chars(String(2025))),
     Filters(Chars(<<"0", "2">>), Chars(String(2024)))}
AppDay == Day(2025, 3, 15)

\* both loads return what the service holds, without a fetch
DataLoaded ==
    Len(dataService.customers) > 0 /\ Len(dataService.transactions) > 0

\* no run of init is about to go on: the loads of a run of init settle
\* before the next event when the service holds the data
MicrotasksDone == app.inits = <<>> \/ ~DataLoaded

Dispatch(type) ==
    /\ event.count < MaxEvents
    /\ MicrotasksDone
    /\ event' = [type |-> type, count |-> event.count + 1]

\* the DOMContentLoaded handler up to await this.loadData() of init
DOMContentLoaded ==
    /\ ~app.constructed
    /\ app' = [app EXCEPT !.constructed = TRUE,
                          !.inits = <<"DOMContentLoaded">>]
    /\ document' = showLoadingState(showMainContent(document))
    /\ event' = [type |-> "DOMContentLoaded", count |-> event.count]
    /\ UNCHANGED <<calcVars, dataVars, paginationManager, pageChanges>>

\* init() from the moment loadData settles: initializeManagers,
\* setupEventListeners and showMainContent, or the catch of init and, when
\* showErrorState throws there, the catch of the DOMContentLoaded handler
LoadDataSettles ==
    /\ app.inits # <<>>
    /\ \E settles \in LoadDataOutcomes :
          /\ DataLoaded => settles.loaded = "all"
                              /\ settles.count = Len(dataService.transactions)
          /\ dataService' =
                IF DataLoaded \/ settles.loaded = "none" THEN dataService
                ELSE IF settles.loaded = "customers"
                THEN [dataService EXCEPT
                        !.customers = AppCustomers,
                        !.cache = MapSet(dataService.cache, "customers",
                                         AppCustomers)]
                ELSE [dataService EXCEPT
                        !.customers = AppCustomers,
                        !.transactions = AppTransactions(settles.count),
                        !.cache =
                            MapSet(MapSet(dataService.cache, "customers",
                                          AppCustomers),
                                   "transactions",
                                   AppTransactions(settles.count))]
          /\ IF settles.loaded = "all"
             THEN /\ app' = [app EXCEPT !.uiManager = TRUE,
                                        !.isInitialized = TRUE,
                                        !.inits = Tail(app.inits)]
                  /\ paginationManager' = NewPaginationManager
                  /\ document' =
                        showMainContent(
                            [document EXCEPT !.listeners = @ + 1,
                                             !.customerSelect = EmptyStr])
             ELSE /\ app' = [app EXCEPT !.inits = Tail(app.inits)]
                  /\ document' =
                        IF app.uiManager THEN showErrorState(document)
                        ELSE IF Head(app.inits) = "DOMContentLoaded"
                        THEN ShowErrorDirectly(document)
                        ELSE document
                  /\ UNCHANGED paginationManager
    /\ UNCHANGED <<pending, settled, fetchCalls, query>>
    /\ UNCHANGED <<calcVars, pageChanges, event>>

\* a click on retryBtn: handleRetry() of each listener, up to
\* await this.loadData() of init
ClickRetry ==
    /\ Dispatch("click:retryBtn")
    /\ app' = [app EXCEPT
                 !.inits = @ \o [i \in 1..document.listeners |-> "handleRetry"]]
    /\ document' = IF document.listeners > 0 THEN showLoadingState(document)
                   ELSE document
    /\ UNCHANGED <<calcVars, dataVars, paginationManager, pageChanges>>

\* a change of customerSelect to a value: handleCustomerChange(event) of
\* each listener
ChangeCustomer ==
    /\ Dispatch("change:customerSelect")
    /\ \E customerId \in AppCustomerIds, threw \in BOOLEAN :
          document' =
              LET selected == [document EXCEPT !.customerSelect = customerId]
              IN IF document.listeners = 0 THEN selected
                 ELSE handleCustomerChange(selected, dataService, customerId,
                                           AppDay, tzWest, threw)
    /\ UNCHANGED <<calcVars, dataVars, paginationManager, pageChanges, app>>

\* a click on applyFilters: handleApplyFilters() of each listener
ClickApplyFilters ==
    /\ Dispatch("click:applyFilters")
    /\ \E filters \in AppFilters, threw \in BOOLEAN :
          document' =
              IF document.listeners = 0 THEN document
              ELSE handleApplyFilters(document, dataService, filters, AppDay,
                                      tzWest, threw)
    /\ UNCHANGED <<calcVars, dataVars, paginationManager, pageChanges, app>>

\* a click on nextPage or on prevPage
ClickPage(type, forward) ==
    /\ Dispatch(type)
    /\ LET r == HandlePageClicks(document.listeners, forward,
                                 Done(paginationManager, FALSE, <<>>))
       IN /\ paginationManager' = r.manager
          /\ document' = IF r.updatesUI THEN updateUI(r.manager, document)
                         ELSE document
          /\ pageChanges' =
                IF document.listeners = 0 THEN pageChanges
                ELSE [op |-> IF forward THEN "goToNextPage"
                             ELSE "goToPreviousPage",
                      arg |-> Undefined, data |-> NotArray(Undefined),
                      callbacks |-> r.callbacks]
    /\ UNCHANGED <<calcVars, dataVars, app>>

ClickNextPage == ClickPage("click:nextPage", TRUE)

ClickPreviousPage == ClickPage("click:prevPage", FALSE)

NextApp ==
    \/ DOMContentLoaded
    \/ LoadDataSettles
    \/ ClickRetry
    \/ ChangeCustomer
    \/ ClickApplyFilters
    \/ ClickNextPage
    \/ ClickPreviousPage

SpecApp == InitData /\ [][NextApp]_vars

\* ----------------------------------------------------------------- claims
\* The validity rule of the specification: a finite number >= 0.
FiniteNonNegative(x) == x.k = "fin" /\ x.v >= 0

\* a non-negative integer
IsPointCount(x) == x.k = "fin" /\ x.v >= 0 /\ x.v % Scale = 0

\* the points the tier rule gives for the finite amount v / Scale
TierPoints(v) ==
    IF v <= LOW_THRESHOLD * Scale THEN 0
    ELSE IF v <= HIGH_THRESHOLD * Scale
         THEN (v - LOW_THRESHOLD * Scale) \div Scale
    ELSE (2 * (v - HIGH_THRESHOLD * Scale)) \div Scale + 50

\* the sum of f[i] over the indices i of the set I
RECURSIVE SumOver(_, _)
SumOver(I, f) ==
    IF I = {} THEN 0
    ELSE LET i == CHOOSE j \in I : TRUE IN f[i] + SumOver(I \ {i}, f)

ZeroBreakdown == [highTier |-> Num(0), lowTier |-> Num(0)]

C2_BreakdownSum ==
    (called = "getPointsBreakdown" /\ FiniteNonNegative(amount))
        => /\ IsPointCount(ret.highTier)
           /\ IsPointCount(ret.lowTier)
           /\ calculatePointsForTransaction(amount).status = "returned"
           /\ calculatePointsForTransaction(amount).value
                  = Fin(ret.highTier.v + ret.lowTier.v)

\* C2 witness: the breakdown of an amount over 100 has both tiers positive
C2_Witness ==
    /\ called = "getPointsBreakdown"
    /\ FiniteNonNegative(amount)
    /\ ret.highTier.k = "fin" /\ ret.highTier.v > 0
    /\ ret.lowTier.k = "fin" /\ ret.lowTier.v > 0

\* C3: calculatePointsForTransaction(v) fails with 'Invalid transaction
\* amount', and isValidAmount(v) is false, for exactly the values v that are
\* not finite numbers >= 0.
C3_ValidIffFiniteNonNegative ==
    /\ called = "calculatePointsForTransaction"
         => /\ (outcome.status = "threw") <=> ~FiniteNonNegative(amount)
            /\ outcome.status = "threw" => outcome.error = ERR_AMOUNT
    /\ called = "isValidAmount" => (ret <=> FiniteNonNegative(amount))

\* the elements of the array that are non-null and have a valid amount
ValidElements(items) ==
    {i \in 1..Len(items) :
        items[i].kind = "object" /\ FiniteNonNegative(items[i].amount)}

\* C4: calculateTotalPoints(ts) is the sum of calculatePointsForTransaction
\* over exactly the elements that are non-null and have a valid amount; the
\* others are skipped without raising; an empty or all-invalid array gives 0.
C4_TotalOverValid ==
    (called = "calculateTotalPoints" /\ transactions.isArray)
        => /\ outcome.status = "returned"
           /\ ret = Fin(SumOver(ValidElements(transactions.items),
                    [i \in ValidElements(transactions.items) |->
                        calculatePointsForTransaction(
                            transactions.items[i].amount).value.v]))

\* the elements the specification retains for the monthly breakdown
Retained(items) ==
    {i \in ValidElements(items) : items[i].date.k = "date"}

\* the month key of a retained element
KeyOf(t) == getMonthYearKey(NewDate(t.date), tzWest)

\* C5: calculateMonthlyBreakdown(ts) has exactly one bucket per month key of
\* a retained element (non-null, valid amount, present and parseable date)
\* and no other key; the bucket's points, transactionCount and totalAmount
\* are the sum of the points, the number and the sum of the amounts of the
\* retained elements of that month.
C5_MonthlyBuckets ==
    (called = "calculateMonthlyBreakdown" /\ transactions.isArray)
        => LET items == transactions.items
               InMonth(key) == {i \in Retained(items) : KeyOf(items[i]) = key}
           IN /\ outcome.status = "returned"
              /\ {ret[j].key : j \in 1..Len(ret)}
                     = {KeyOf(items[i]) : i \in Retained(items)}
              /\ \A j, l \in 1..Len(ret) : ret[j].key = ret[l].key => j = l
              /\ \A j \in 1..Len(ret) :
                    LET I == InMonth(ret[j].key) IN
                    /\ ret[j].points = Fin(SumOver(I, [i \in I |->
                          calculatePointsForTransaction(items[i].amount).value.v]))
                    /\ ret[j].transactionCount = Cardinality(I)
                    /\ ret[j].totalAmount =
                          Fin(SumOver(I, [i \in I |-> items[i].amount.v]))

\* the i-th record is the i-th element with the added fields
DerivedFrom(record, element) ==
    /\ record.transactionId = element.transactionId
    /\ record.amount = element.amount
    /\ record.date = element.date

\* C6: calculatePointsWithDetails(ts) has the length of ts and its i-th
\* record is derived from the i-th element: nothing is skipped, null elements
\* and elements whose amount is not a number included.
C6_DetailsOneToOne ==
    (called = "calculatePointsWithDetails" /\ transactions.isArray)
        => /\ outcome.status = "returned"
           /\ Len(ret) = Len(transactions.items)
           /\ \A i \in 1..Len(ret) : DerivedFrom(ret[i], transactions.items[i])

\* C7: every record emitted by calculatePointsWithDetails carries the fields
\* of its element plus points and pointsBreakdown: those of
\* calculatePointsForTransaction and getPointsBreakdown for a valid amount,
\* 0 and {highTier: 0, lowTier: 0} for an invalid one.
C7_DetailsFields ==
    (called = "calculatePointsWithDetails" /\ transactions.isArray)
        => \A j \in 1..Len(ret) :
              \E i \in 1..Len(transactions.items) :
                 LET element == transactions.items[i] IN
                 /\ DerivedFrom(ret[j], element)
                 /\ IF element.kind = "object"
                       /\ FiniteNonNegative(element.amount)
                    THEN /\ ret[j].points =
                              calculatePointsForTransaction(element.amount).value
                         /\ ret[j].pointsBreakdown =
                              getPointsBreakdown(element.amount)
                    ELSE /\ ret[j].points = Num(0)
                         /\ ret[j].pointsBreakdown = ZeroBreakdown

BatchOperations ==
    {"calculateTotalPoints", "calculateMonthlyBreakdown",
     "calculatePointsWithDetails"}

\* C8: each batch operation fails with 'Transactions must be an array' when
\* and only when its argument is not an array; a malformed record inside an
\* array never makes it fail.
C8_ArrayErrorOnly ==
    called \in BatchOperations
        => /\ (outcome.status = "threw") <=> ~transactions.isArray
           /\ outcome.status = "threw" => outcome.error = ERR_ARRAY
           /\ transactions.isArray => outcome.status = "returned"

\* C8 witness: a batch operation returned on an array that holds a null
\* element and an element with a negative amount
C8_Witness ==
    /\ called \in BatchOperations
    /\ transactions.isArray
    /\ \E i \in 1..Len(transactions.items) :
          transactions.items[i].kind = "null"
    /\ \E i \in 1..Len(transactions.items) :
          /\ transactions.items[i].kind = "object"
          /\ transactions.items[i].amount = Num(0 - 10)
    /\ outcome.status = "returned"

\* C9: getPointsBreakdown never raises: it returns a record {highTier,
\* lowTier} for every value, {highTier: 0, lowTier: 0} for every invalid one.
C9_BreakdownNeverRaises ==
    called = "getPointsBreakdown"
        => /\ outcome.status = "returned"
           /\ DOMAIN ret = {"highTier", "lowTier"}
           /\ ~FiniteNonNegative(amount) => ret = ZeroBreakdown

\* C10: for all valid amounts a <= b,
\* 0 <= calculatePointsForTransaction(a) <= calculatePointsForTransaction(b).
C10_Monotone ==
    (called = "calculatePointsForTransaction" /\ FiniteNonNegative(amount))
        => /\ outcome.status = "returned"
           /\ JsGE(ret, Num(0))
           /\ \A b \in {x \in Amounts : FiniteNonNegative(x)} :
                 b.v >= amount.v
                    => /\ calculatePointsForTransaction(b).status = "returned"
                       /\ JsGE(calculatePointsForTransaction(b).value, ret)

\* C10 witness: an amount between the thresholds got points that are more
\* than 0 and less than the points of the high threshold
C10_Witness ==
    /\ called = "calculatePointsForTransaction"
    /\ FiniteNonNegative(amount)
    /\ amount.v < HIGH_THRESHOLD * Scale
    /\ outcome.status = "returned"
    /\ JsGT(ret, Num(0))
    /\ JsLT(ret, calculatePointsForTransaction(Num(HIGH_THRESHOLD)).value)

HighPortion(v) == IF v > 100 * Scale THEN v - 100 * Scale ELSE 0
LowPortion(v) ==
    LET capped == IF v < 100 * Scale THEN v ELSE 100 * Scale
    IN IF capped > 50 * Scale THEN capped - 50 * Scale ELSE 0

\* the points with each tier floored, and with the total floored once
FloorEach(v) == (2 * HighPortion(v)) \div Scale + LowPortion(v) \div Scale
FloorOnce(v) == (2 * HighPortion(v) + LowPortion(v)) \div Scale

\* C12 as stated: calculatePointsForTransaction floors the two tiers
\* independently before summing, and there are fractional valid amounts for
\* which the result differs from flooring the combined total once.
C12_FloorOnceDiffersAsStated ==
    (called = "calculatePointsForTransaction" /\ FiniteNonNegative(amount))
        => /\ ret = Num(FloorEach(amount.v))
           /\ \E b \in {x \in Amounts : FiniteNonNegative(x)} :
                 /\ b.v % Scale # 0
                 /\ calculatePointsForTransaction(b).value # Num(FloorOnce(b.v))

\* C12, amended: calculatePointsForTransaction floors the two tiers
\* independently before summing, and for every valid amount the result
\* equals flooring the combined total once (the low tier of an amount over
\* 100 is the integer 50, the high tier of any other amount is 0).
C12_FloorOnceSame ==
    (called = "calculatePointsForTransaction" /\ FiniteNonNegative(amount))
        => /\ outcome.status = "returned"
           /\ ret = Num(FloorEach(amount.v))
           /\ ret = Num(FloorOnce(amount.v))

\* C12 witness: a fractional amount whose doubled part over 100 has a
\* fraction of a half or more got its points
C12_Witness ==
    /\ called = "calculatePointsForTransaction"
    /\ FiniteNonNegative(amount)
    /\ amount.v > HIGH_THRESHOLD * Scale
    /\ (2 * amount.v) % Scale >= Scale \div 2
    /\ outcome.status = "returned"

\* the identities of the objects of the argument
InputRefs == {transactions.items[i].ref : i \in 1..Len(transactions.items)}

\* C13: no operation of the engine changes the array it is given or a field
\* of a transaction in it: after the call the argument is what it was before,
\* and the annotated records are new objects.
C13_InputUnchanged ==
    [][/\ transactions' = transactions
       /\ (called' = "calculatePointsWithDetails" /\ outcome'.status = "returned")
            => \A j \in 1..Len(ret') : ret'[j].ref \notin InputRefs]_vars

\* C13 witness: calculatePointsWithDetails has returned a record with points
\* for an array of two objects
C13_Witness ==
    /\ called = "calculatePointsWithDetails"
    /\ outcome.status = "returned"
    /\ Len(transactions.items) = 2
    /\ Len(ret) = 2
    /\ IsNumber(ret[1].points)
    /\ transactions.items[1].points = Undefined

\* C16: calculatePointsWithDetails is idempotent on the fields it adds:
\* applied to its own output it gives, record by record, the points and the
\* pointsBreakdown of the first application.
C16_DetailsIdempotent ==
    (called = "calculatePointsWithDetails" /\ outcome.status = "returned")
        => LET again == calculatePointsWithDetails(ArrayOf(ret))
           IN /\ again.status = "returned"
              /\ Len(again.value) = Len(ret)
              /\ \A j \in 1..Len(ret) :
                    /\ again.value[j].points = ret[j].points
                    /\ again.value[j].pointsBreakdown = ret[j].pointsBreakdown

\* C16 witness: the first application gave a record with points over 0 and
\* a record with the points 0 of a rejected amount
C16_Witness ==
    /\ called = "calculatePointsWithDetails"
    /\ outcome.status = "returned"
    /\ \E j \in 1..Len(ret) : JsGT(ret[j].points, Num(0))
    /\ \E j \in 1..Len(ret) :
          ret[j].points = Num(0) /\ JsLT(ret[j].amount, Num(0))

\* the month keys of the retained elements from element i on, each at its
\* first occurrence, after the keys seen
RECURSIVE FirstOccurrences(_, _, _)
FirstOccurrences(items, i, seen) ==
    IF i > Len(items) THEN seen
    ELSE IF i \in Retained(items)
            /\ \A j \in 1..Len(seen) : seen[j] # KeyOf(items[i])
         THEN FirstOccurrences(items, i + 1, Append(seen, KeyOf(items[i])))
         ELSE FirstOccurrences(items, i + 1, seen)

\* C17: calculateMonthlyBreakdown processes the input in sequence order: the
\* keys of its result appear in the order in which each month key first
\* occurs among the retained elements of the input.
C17_KeysInFirstOccurrenceOrder ==
    (called = "calculateMonthlyBreakdown" /\ transactions.isArray)
        => /\ outcome.status = "returned"
           /\ [j \in 1..Len(ret) |-> ret[j].key]
                  = FirstOccurrences(transactions.items, 1, <<>>)

\* a string of the form YYYY-MM: four digits, '-', two digits
IsYearMonth(key) ==
    /\ key.isString
    /\ Len(key.chars) = 7
    /\ key.chars[5] = "-"
    /\ \A i \in {1, 2, 3, 4, 6, 7} : IsDigit(key.chars[i])

\* the month number MM of a string YYYY-MM
MonthNumberOf(key) == 10 * DigitValue(key.chars[6]) + DigitValue(key.chars[7])

\* C14: for every string YYYY-MM getMonthYearDisplay returns
\* '<MonthName> <YYYY>' when MM is a month number 1..12 and 'Unknown <YYYY>'
\* when it is not.
C14_MonthYearDisplay ==
    (called = "getMonthYearDisplay" /\ IsYearMonth(monthYearKey))
        => /\ outcome.status = "returned"
           /\ ret = <<IF MonthNumberOf(monthYearKey) \in 1..12
                      THEN monthNames[MonthNumberOf(monthYearKey)]
                      ELSE "Unknown",
                      " ">>
                    \o SubSeq(monthYearKey.chars, 1, 4)

\* C14 witness: '2024-12' has been displayed as 'December 2024'
C14_Witness ==
    /\ called = "getMonthYearDisplay"
    /\ monthYearKey = StringOf(<<"2", "0", "2", "4", "-", "1", "2">>)
    /\ ret = <<"December", " ", "2", "0", "2", "4">>

\* C15: getMonthYearDisplay never fails and returns 'Invalid Date' for every
\* input that is not a string of the shape YYYY-MM: a non-string, a string
\* without separator, a string of the wrong shape.
C15_InvalidDateForOtherShapes ==
    (called = "getMonthYearDisplay" /\ ~IsYearMonth(monthYearKey))
        => /\ outcome.status = "returned"
           /\ ret = <<"Invalid Date">>

\* the loads of the service
Loads == {"loadCustomers", "loadTransactions"}

\* the list a load fills: customers for loadCustomers, transactions for
\* loadTransactions
Held(service, op) ==
    IF op = "loadCustomers" THEN service.customers ELSE service.transactions
CacheKey(op) == IF op = "loadCustomers" THEN "customers" ELSE "transactions"

HasIdAndName(customer) ==
    /\ customer.kind = "object"
    /\ customer.customerId \notin {Undefined, Null, EmptyStr}
    /\ customer.name \notin {Undefined, Null, EmptyStr}

\* the cause of a failed load of customers, from what its last awaited
\* promise settled with; <<>> when that is no failure
CustomersFailure(awaited) ==
    IF awaited.settles = "rejected" THEN <<awaited.message>>
    ELSE IF awaited.from = "fetch" /\ ~awaited.ok
    THEN <<"HTTP error! status: ", awaited.status>>
    ELSE IF awaited.from = "json" /\ ~awaited.data.isArray
    THEN <<"Invalid customers data format">>
    ELSE IF /\ awaited.from = "json"
            /\ \A i \in 1..Len(awaited.data.items) :
                  awaited.data.items[i].kind = "object"
                  /\ ~HasIdAndName(awaited.data.items[i])
    THEN <<"No valid customer data found">>
    ELSE <<>>

C20_LoadingWhileLoadPending ==
    isDataLoading <=> ~NoLoadPending

\* C20 witness: a load of customers is waiting for its response and the
\* service reports loading, after a load that failed
C20_Witness ==
    /\ pending.loadCustomers = "json"
    /\ isDataLoading
    /\ settled.status = "rejected"

\* a transactions record with a non-empty transactionId, a non-empty
\* customerId, an amount of type number and a date that is present and parses
IsValidRecord(record) ==
    /\ record.transactionId \notin {Undefined, Null, EmptyStr}
    /\ record.customerId \notin {Undefined, Null, EmptyStr}
    /\ record.amount.k \in {"fin", "inf", "nan"}
    /\ record.date \notin {Undefined, Null, EmptyStr}
    /\ record.date.k = "date"

\* the record the service stores for a valid record: its ids and its date
\* as strings, its amount
StoredFor(record) ==
    [transactionId |-> StringValue(record.transactionId),
     customerId |-> StringValue(record.customerId),
     amount |-> record.amount,
     date |-> StringValue(record.date)]

\* the records stored for the valid records of the data, in the order of the
\* data
StoredOf(items) ==
    LET valid == SelectSeq(items, IsValidRecord)
    IN [j \in 1..Len(valid) |-> StoredFor(valid[j])]

\* C21: after a successful loadTransactions the stored transactions are
\* exactly the records of the data, in the order of the data, that have a
\* non-empty transactionId, a non-empty customerId, an amount of type number
\* and a date that is present and parses; every other record is skipped, and
\* if no record remains the load fails with 'No valid transaction data
\* found'.
C21_StoredAreValidRecords ==
    [][(/\ pending.loadTransactions = "json"
        /\ pending'.loadTransactions = "idle"
        /\ settled'.awaited.settles = "resolved"
        /\ settled'.awaited.data.isArray)
          => LET stored == StoredOf(settled'.awaited.data.items)
             IN IF stored = <<>>
                THEN /\ settled'.status = "rejected"
                     /\ settled'.error
                          = <<"Failed to load transactions data: ",
                              "No valid transaction data found">>
                ELSE /\ settled'.status = "resolved"
                     /\ settled'.value = stored
                     /\ dataService'.transactions = stored]_vars

\* the number of occurrences of t in the list
CountIn(list, t) == Cardinality({j \in 1..Len(list) : list[j] = t})

\* the month 'MM' and the year 'YYYY' of the local calendar day of a stored
\* transaction
LocalMonthOf(t) ==
    Chars(padStart(String(getMonth(NewDate(t.date), tzWest) + 1), 2, "0"))
LocalYearOf(t) == Chars(String(getFullYear(NewDate(t.date), tzWest)))

\* no filter is given: no argument, null, or an object without month and year
IsNoFilter(f) ==
    f.kind # "object" \/ (f.month = Undefined /\ f.year = Undefined)

\* a filter {month: m, year: y} with a month number and a year
IsMonthYearFilter(f) ==
    /\ f.kind = "object"
    /\ f.month.k = "chars" /\ f.month # Last3
    /\ f.year.k = "chars"

\* C22: getTransactionsForCustomer(c, filters) returns exactly the stored
\* transactions whose customerId equals c and that pass the filter (all of
\* them without filter, those of month m and year y for {month: m, year: y}),
\* newest first; it returns an empty list for an empty or unknown c, and it
\* leaves the stored transactions and their order unchanged.
C22_CustomerTransactions ==
    [][(/\ query' # query
        /\ IsNoFilter(query'.filters) \/ IsMonthYearFilter(query'.filters))
          => LET c == query'.customerId
                 f == query'.filters
                 stored == dataService.transactions
                 result == query'.result
                 Passes(t) ==
                   \/ IsNoFilter(f)
                   \/ LocalMonthOf(t) = f.month /\ LocalYearOf(t) = f.year
                 Selected(t) == t.customerId = c /\ Passes(t)
             IN /\ \A j \in 1..Len(stored) :
                      CountIn(result, stored[j])
                        = IF Selected(stored[j])
                          THEN CountIn(stored, stored[j]) ELSE 0
                /\ \A j \in 1..Len(result) :
                      \E l \in 1..Len(stored) : stored[l] = result[j]
                /\ \A j, l \in 1..Len(result) :
                      j < l => DayOf(result[j].date) >= DayOf(result[l].date)
                /\ (\/ c \in {EmptyStr, Undefined}
                    \/ \A j \in 1..Len(stored) : stored[j].customerId # c)
                      => result = <<>>
                /\ dataService'.transactions = stored]_vars

\* C22 witness: a query with month and year has returned one of the stored
\* transactions of the customer and left out another, and a query has
\* returned two transactions in another order than they are stored
C22_Witness ==
    /\ query.op = "getTransactionsForCustomer"
    /\ query.customerId = CustId(1)
    /\ Len(query.result) = 2
    /\ Len(dataService.transactions) = 3
    /\ \E j, l \in 1..3 :
          /\ j < l
          /\ dataService.transactions[j] = query.result[2]
          /\ dataService.transactions[l] = query.result[1]
    /\ IsMonthYearFilter(query.filters)

\* C29: getTransactionsForCustomer(c, {year: y}) with a year and no month
\* returns exactly the stored transactions of customer c dated in year y, the
\* period 'Year y' that the customer summary displays for such a filter.
C29_YearOnlyFilter ==
    [][(/\ query' # query
        /\ query'.filters.kind = "object"
        /\ query'.filters.month = Undefined
        /\ query'.filters.year.k = "chars")
          => LET c == query'.customerId
                 stored == dataService.transactions
                 result == query'.result
                 Selected(t) ==
                   t.customerId = c /\ LocalYearOf(t) = query'.filters.year
             IN /\ \A j \in 1..Len(stored) :
                      CountIn(result, stored[j])
                        = IF Selected(stored[j])
                          THEN CountIn(stored, stored[j]) ELSE 0
                /\ \A j \in 1..Len(result) :
                      \E l \in 1..Len(stored) : stored[l] = result[j]]_vars

\* C27: under every interleaving of a loadCustomers call and a
\* loadTransactions call on one DataService, isDataLoading() is true at every
\* moment at which at least one of the two loads has started fetching and
\* has not yet settled.
C27_LoadingWhileAnyLoadPending ==
    (\E op \in DOMAIN pending : pending[op] \in {"fetch", "json"})
        => isDataLoading

\* the sum of the points fields of a list, added in the order of the list
RECURSIVE SumOfPoints(_)
SumOfPoints(list) ==
    IF list = <<>> THEN Num(0)
    ELSE JsAdd(SumOfPoints(SubSeq(list, 1, Len(list) - 1)),
               list[Len(list)].points)

\* every element has a present and parseable date
AllDated(items) ==
    \A i \in 1..Len(items) :
        items[i].kind = "object" /\ items[i].date.k = "date"

\* C28: for every array ts, calculateTotalPoints(ts) equals the sum of the
\* points fields of calculatePointsWithDetails(ts), and, when every element
\* has a present and parseable date, the sum of the points of the buckets of
\* calculateMonthlyBreakdown(ts).
C28_TotalsAgree ==
    (called = "calculateTotalPoints" /\ transactions.isArray)
        => LET details == calculatePointsWithDetails(transactions)
               monthly == calculateMonthlyBreakdown(transactions, tzWest)
           IN /\ outcome.status = "returned"
              /\ details.status = "returned"
              /\ ret = SumOfPoints(details.value)
              /\ AllDated(transactions.items)
                    => /\ monthly.status = "returned"
                       /\ ret = SumOfPoints(monthly.value)

\* C28 witness: the total of two dated transactions of different months,
\* both with points, has been computed
C28_Witness ==
    /\ called = "calculateTotalPoints"
    /\ transactions.isArray
    /\ Len(transactions.items) = 2
    /\ AllDated(transactions.items)
    /\ transactions.items[1].date # transactions.items[2].date
    /\ \A i \in 1..2 : transactions.items[i].amount.k = "fin"
                       /\ transactions.items[i].amount.v > 50 * Scale
    /\ ret.k = "fin" /\ ret.v > 100 * Scale

\* the number of pages n items fill when a page holds perPage items: the
\* least number of pages that hold them all
PagesFor(n, perPage) ==
    CHOOSE k \in 0..n : k * perPage >= n /\ \A j \in 0..(k - 1) : j * perPage < n

\* C23: in every state of a PaginationManager reachable by any sequence of
\* initialize, updateData, setItemsPerPage, goToPage, goToNextPage,
\* goToPreviousPage, goToFirstPage, goToLastPage and reset, totalItems is
\* the length of data, totalPages is ceil(totalItems / itemsPerPage),
\* itemsPerPage >= 1 and 1 <= currentPage <= max(1, totalPages).
C23_PaginationInvariant ==
    /\ paginationManager.totalItems = Len(paginationManager.data)
    /\ paginationManager.itemsPerPage >= 1
    /\ paginationManager.totalPages =
          PagesFor(paginationManager.totalItems, paginationManager.itemsPerPage)
    /\ paginationManager.currentPage >= 1
    /\ \/ paginationManager.currentPage = 1
       \/ paginationManager.currentPage <= paginationManager.totalPages

\* C23 witness: on the last of three pages, with two items per page, after
\* setItemsPerPage moved the current page back onto the last page
C23_Witness ==
    /\ pageChanges.op = "setItemsPerPage"
    /\ paginationManager.itemsPerPage = 2
    /\ paginationManager.totalPages = 3
    /\ paginationManager.currentPage = 3
    /\ document.pageInfo = [currentPage |-> 3, totalPages |-> 3]

\* the items of page p; the data drawn holds item i at index i
PageSlice(this, p) ==
    LET first == (p - 1) * this.itemsPerPage + 1
        last == first + this.itemsPerPage - 1
    IN SelectSeq(this.data, LAMBDA item : item >= first /\ item <= last)

\* p is an integer in 1..totalPages and not the current page
IsOtherPage(this, p) ==
    /\ p.k = "fin"
    /\ p.v % Scale = 0
    /\ p.v \div Scale \in 1..this.totalPages
    /\ p.v \div Scale # this.currentPage

\* C24: goToPage(p) with p an integer in 1..totalPages and different from
\* currentPage sets currentPage to p and invokes the page-change callback
\* exactly once with p and the data slice of page p; for any other p (not a
\* number, below 1, above totalPages, or equal to currentPage) the
\* pagination state is unchanged and the callback is not invoked.
C24_GoToPage ==
    [][pageChanges'.op = "goToPage"
          => IF IsOtherPage(paginationManager, pageChanges'.arg)
             THEN LET p == pageChanges'.arg.v \div Scale
                  IN /\ paginationManager' =
                          [paginationManager EXCEPT !.currentPage = p]
                     /\ paginationManager.onPageChangeCallback
                          => pageChanges'.callbacks =
                               <<[page |-> p,
                                  data |-> PageSlice(paginationManager, p)]>>
             ELSE /\ paginationManager' = paginationManager
                  /\ pageChanges'.callbacks = <<>>]_vars

\* C25: in the running application, after a customer with more than
\* TRANSACTIONS_PER_PAGE transactions has been displayed (pagination controls
\* shown as 'Page 1 of N' with N >= 2), a click on the next-page button moves
\* the pagination to page 2, and a following click on the previous-page
\* button moves it back to page 1.
C25_PageButtons ==
    [][/\ (/\ event' # event
           /\ event'.type = "click:nextPage"
           /\ document.mainContent
           /\ document.paginationControls
           /\ document.pageInfo.currentPage = 1
           /\ document.pageInfo.totalPages >= 2)
          => /\ paginationManager'.currentPage = 2
             /\ document'.pageInfo.currentPage = 2
       /\ (/\ event' # event
           /\ event'.type = "click:prevPage"
           /\ event.type = "click:nextPage"
           /\ document.mainContent
           /\ document.paginationControls
           /\ document.pageInfo.totalPages >= 2)
          => /\ paginationManager'.currentPage = 1
             /\ document'.pageInfo.currentPage = 1]_vars

\* C26: if the data load fails during the initialization of the
\* application, the application ends in the error state (errorState
\* visible, loadingState hidden), and a later click on the retry button runs
\* the initialization again.
C26_RetryAfterFailedLoad ==
    [][/\ (app.inits # <<>> /\ app'.inits = <<>> /\ ~app'.isInitialized)
          => document'.errorState /\ ~document'.loadingState
       /\ (/\ event' # event
           /\ event'.type = "click:retryBtn"
           /\ document.errorState
           /\ ~app.isInitialized)
          => app'.inits # <<>> /\ document'.loadingState]_vars

\* C30: in every state reachable from page load through any sequence of
\* initialization outcomes, customer selections, filter applications and
\* retries, at most one of the three top-level views loadingState,
\* errorState and mainContent is visible.
C30_OneViewVisible ==
    /\ ~(document.loadingState /\ document.errorState)
    /\ ~(document.loadingState /\ document.mainContent)
    /\ ~(document.errorState /\ document.mainContent)

\* C30 witness: the error state is visible after a customer was selected in
\* the initialized application
C30_Witness ==
    /\ app.isInitialized
    /\ event.type = "change:customerSelect"
    /\ document.errorState
    /\ ~document.loadingState
    /\ ~document.mainContent

====
